---- MODULE Spec2Model ----
(***************************************************************************)
(* A model of verco's interactive front end:                               *)
(*   - the sub-widgets of src/src/mode.rs (Output, SelectMenu),            *)
(*   - the RevisionDetails mode of src/src/mode/revision_details.rs,       *)
(*   - the key-chord main loops of src/old/tui.rs and src/src/tui.rs.      *)
(* Each component has its own specification (SpecOutput, SpecSelect,       *)
(* SpecMode, SpecOldTui, SpecTui, SpecTyped); a specification leaves the   *)
(* variables of the other components untouched.                            *)
(***************************************************************************)
EXTENDS Integers, Sequences, FiniteSets, TLC

VARIABLES
    out,            \* Output widget on its own: [text, line_count, scroll]
    out_last,       \* the last call made on `out`: [op, height, key]
    out_hist,       \* [before: the scroll offset before the last call,
                    \*  presses: the PageDown keys of one height in a row,
                    \*  counted from scroll 0]
    menu,           \* SelectMenu widget on its own: [cursor, scroll]
    menu_last,      \* the last call made on `menu`: [op, n, height, key, action]
    \* RevisionDetails (revision_details::Mode) and its surroundings
    state,          \* Mode.state: "Idle", "Waiting" or "ViewDiff"
    entries,        \* Mode.entries: sequence of [name, status, selected]
    output,         \* Mode.output: [text, line_count, scroll]
    select,         \* Mode.select: [cursor, scroll]
    show_full_message,  \* Mode.show_full_message
    threads,        \* the kinds ("Info", "Diff") of the spawned worker threads
                    \* that have not sent their response yet
    channel,        \* the kinds of the responses sent and not yet received
    latest,         \* for every thread and every response in flight, whether
                    \* its worker was started by the latest request (on_enter
                    \* or 'd') that started one: [threads, channel]
    mode_last,      \* the last call made on the mode: [op, key, spawned, answered]
    worker_last,    \* the run of a worker, when it was the last step:
                    \* [kind, ok, calls, sent]
    toggle_hist,    \* the entries before each of the latest consecutive 'a' keys
    \* the asynchronous front end (src/old/tui.rs) and its Application
    old_pc,         \* where Tui::show is: "main" loop, "custom" loop, "done"
                    \* (out of the loop), "returned" (Ok), "failed" (Err)
    raw_mode,       \* the terminal is in raw mode
    alternate_screen, \* the terminal shows the alternate screen
    current_key_chord,      \* Tui.current_key_chord
    previous_action_kind,   \* Tui.previous_action_kind
    current_action_kind,    \* Tui.current_action_kind
    custom_actions, \* Application.custom_actions: the shortcuts, in order
    pending,        \* the kinds that have a worker running
    cache,          \* the cached ActionResult of every kind
    spawns,         \* the number of run_action calls so far
    cache_last,     \* the last result cached: [kind, result, before: what
                    \* the cache held for the kind, running: the kinds
                    \* whose worker was still running then]
    old_last,       \* the last key handled: [loop, acc, result, kind, spawned,
                    \* trace: what the callback did, shown: the kind whose
                    \* cached result it displayed]
    \* the synchronous front end (src/src/tui.rs)
    tui_pc,         \* where Tui::show is: "main" loop, "custom" loop, "done"
    tui_key_chord,  \* Tui.current_key_chord
    custom_commands,    \* Tui.custom_commands: the shortcuts, in order
    tui_last,       \* the last key handled: [loop, acc, result, arm, ran]
    \* the chord dispatcher of src/old/tui.rs on a typed sequence
    typed,          \* the characters still to be typed
    typed_chord,    \* the chord accumulated so far
    typed_last,     \* the last resolution: [acc, arm, result]
    \* ReadLine widget on its own
    rl,             \* ReadLine.input: the sequence of its characters
    rl_last,        \* the last call made on `rl`: [op, key]
    rl_hist,        \* the inputs before each of the latest consecutive Ctrl-w keys
    draw_last       \* the last call of Drawer::output: [called, width, height,
                    \* lines, counts, line_count]

outVars == <<out, out_last, out_hist>>
selVars == <<menu, menu_last>>
modeVars == <<state, entries, output, select, show_full_message, threads,
              channel, latest, mode_last, worker_last, toggle_hist>>
oldVars == <<old_pc, current_key_chord, previous_action_kind,
             current_action_kind, custom_actions, pending, cache, spawns,
             cache_last, old_last, raw_mode, alternate_screen>>
tuiVars == <<tui_pc, tui_key_chord, custom_commands, tui_last>>
typedVars == <<typed, typed_chord, typed_last>>
rlVars == <<rl, rl_last, rl_hist>>
drawVars == <<draw_last>>
vars == <<outVars, selVars, modeVars, oldVars, tuiVars, typedVars, rlVars,
          drawVars>>

\* What each component leaves alone.
notOutput ==
    <<selVars, modeVars, oldVars, tuiVars, typedVars, rlVars, drawVars>>
notSelect ==
    <<outVars, modeVars, oldVars, tuiVars, typedVars, rlVars, drawVars>>
notMode ==
    <<outVars, selVars, oldVars, tuiVars, typedVars, rlVars, drawVars>>
notOld ==
    <<outVars, selVars, modeVars, tuiVars, typedVars, rlVars, drawVars>>
notTui ==
    <<outVars, selVars, modeVars, oldVars, typedVars, rlVars, drawVars>>
notReadLine ==
    <<outVars, selVars, modeVars, oldVars, tuiVars, typedVars, drawVars>>
notTyped ==
    <<outVars, selVars, modeVars, oldVars, tuiVars, rlVars, drawVars>>
notDrawer ==
    <<selVars, modeVars, oldVars, tuiVars, typedVars, rlVars>>

(***************************************************************************)
(* Bounds of the model.                                                    *)
(***************************************************************************)
MaxTextLen == 4     \* longest text handed to Output::set
MaxHeight == 3      \* largest available viewport height
MaxLen == 3         \* largest entries_len handed to the SelectMenu

(***************************************************************************)
(* usize helpers.                                                          *)
(***************************************************************************)
\* usize::MAX.  Only ever assigned and then clamped with min(); every value
\* above all lengths of the model behaves the same.
UsizeMax == 2147483647

Min(a, b) == IF a <= b THEN a ELSE b
Max(a, b) == IF a >= b THEN a ELSE b

\* usize::saturating_sub
SatSub(a, b) == IF a >= b THEN a - b ELSE 0

(***************************************************************************)
(* Keys (platform::Key).                                                   *)
(***************************************************************************)
Char(c) == [t |-> "Char", c |-> c]
Ctrl(c) == [t |-> "Ctrl", c |-> c]
Named(n) == [t |-> n, c |-> ""]

KeyDown == Named("Down")
KeyUp == Named("Up")
KeyHome == Named("Home")
KeyEnd == Named("End")
KeyPageDown == Named("PageDown")
KeyPageUp == Named("PageUp")
KeyTab == Named("Tab")
KeyEsc == Named("Esc")

Keys ==
    { KeyDown, KeyUp, KeyHome, KeyEnd, KeyPageDown, KeyPageUp, KeyTab, KeyEsc }
    \cup { Ctrl(c) : c \in {"n", "p", "h", "e", "d", "u"} }
    \cup { Char(c) : c \in {"j", "k", " ", "a", "d", "x"} }

(***************************************************************************)
(* Text: a String as the sequence of its characters.                       *)
(***************************************************************************)
TextChars == {"a", "\n"}

SeqsUpTo(S, n) == UNION { [1..k -> S] : k \in 0..n }

Texts == SeqsUpTo(TextChars, MaxTextLen)

\* A text of a hundred lines.
HundredLines == [i \in 1..100 |-> "\n"]

\* str::lines().count(): the lines are separated by "\n"; a final empty line
\* (the text is empty or ends with "\n") is not counted.
RECURSIVE CountNewlines(_)
CountNewlines(text) ==
    IF text = <<>> THEN 0
    ELSE (IF Head(text) = "\n" THEN 1 ELSE 0) + CountNewlines(Tail(text))

LineCount(text) ==
    CountNewlines(text)
    + (IF text # <<>> /\ text[Len(text)] # "\n" THEN 1 ELSE 0)

(***************************************************************************)
(* Output (src/src/mode.rs).                                               *)
(***************************************************************************)
OutputDefault == [text |-> <<>>, line_count |-> 0, scroll |-> 0]

OutputSet(o, text) ==
    [text |-> text, line_count |-> LineCount(text), scroll |-> 0]

\* The navigation step with PageDown and PageUp moving by a whole viewport.
NavTargetWholePage(pos, half_height, key) ==
    CASE key \in {KeyDown, Ctrl("n"), Char("j")} -> pos + 1
      [] key \in {KeyUp, Ctrl("p"), Char("k")} -> SatSub(pos, 1)
      [] key \in {Ctrl("h"), KeyHome} -> 0
      [] key \in {Ctrl("e"), KeyEnd} -> UsizeMax
      [] key \in {Ctrl("d"), KeyPageDown} -> pos + 2 * half_height
      [] key \in {Ctrl("u"), KeyPageUp} -> SatSub(pos, 2 * half_height)
      [] OTHER -> pos

\* The navigation step shared by Output::on_key and SelectMenu::on_key: the
\* first `match key` of both functions, applied to a scroll offset or a cursor.
NavTarget(pos, half_height, key) ==
    CASE key \in {KeyDown, Ctrl("n"), Char("j")} -> pos + 1
      [] key \in {KeyUp, Ctrl("p"), Char("k")} -> SatSub(pos, 1)
      [] key \in {Ctrl("h"), KeyHome} -> 0
      [] key \in {Ctrl("e"), KeyEnd} -> UsizeMax
      [] key \in {Ctrl("d"), KeyPageDown} -> pos + half_height
      [] key \in {Ctrl("u"), KeyPageUp} -> SatSub(pos, half_height)
      [] OTHER -> pos

\* Output::on_key without its final clamp.
OutputOnKeyNoClamp(o, available_height, key) ==
    [o EXCEPT !.scroll = NavTarget(o.scroll, available_height \div 2, key)]

\* An on_key that sets the text anew, emptied.
OutputOnKeyResets(o, available_height, key) == OutputSet(o, <<>>)

OutputOnKey(o, available_height, key) ==
    LET half_height == available_height \div 2
        scroll == NavTarget(o.scroll, half_height, key)
    IN  [o EXCEPT !.scroll =
            Min(SatSub(o.line_count, available_height), scroll)]

(***************************************************************************)
(* SelectMenu (src/src/mode.rs).                                           *)
(***************************************************************************)
SelectMenuDefault == [cursor |-> 0, scroll |-> 0]

\* saturate_cursor clamping against the length instead of the last index.
SaturateCursorOffByOne(m, entries_len) ==
    [m EXCEPT !.cursor = Min(entries_len, m.cursor)]

SaturateCursor(m, entries_len) ==
    [m EXCEPT !.cursor = Min(SatSub(entries_len, 1), m.cursor)]

SetCursor(m, cursor) == [m EXCEPT !.cursor = cursor]

\* on_remove_entry that moves the cursor only for an index strictly before it.
OnRemoveEntryStrictlyBefore(m, index) ==
    IF index < m.cursor THEN [m EXCEPT !.cursor = SatSub(m.cursor, 1)] ELSE m

OnRemoveEntry(m, index) ==
    IF index <= m.cursor
    THEN [m EXCEPT !.cursor = SatSub(m.cursor, 1)]
    ELSE m

\* The scroll window of SelectMenu::on_key sliding only upwards.
SlideWindowUpOnly(m, available_height) ==
    IF m.cursor < m.scroll THEN [m EXCEPT !.scroll = m.cursor] ELSE m

\* The scroll window follows the cursor (second statement of on_key).
SlideWindow(m, available_height) ==
    IF m.cursor < m.scroll
    THEN [m EXCEPT !.scroll = m.cursor]
    ELSE IF m.cursor >= m.scroll + available_height
         THEN [m EXCEPT !.scroll = m.cursor + 1 - available_height]
         ELSE m

\* SelectMenuAction
ActNone == [a |-> "None", i |-> 0]
ActToggle(i) == [a |-> "Toggle", i |-> i]
ActToggleAll == [a |-> "ToggleAll", i |-> 0]

\* The SelectMenu after on_key.
SelectMenuOnKey(m, entries_len, available_height, key) ==
    LET half_height == available_height \div 2
        moved == [m EXCEPT !.cursor = NavTarget(m.cursor, half_height, key)]
    IN  SlideWindow(SaturateCursor(moved, entries_len), available_height)

\* The value on_key returns.
SelectMenuOnKeyAction(m, entries_len, available_height, key) ==
    LET after == SelectMenuOnKey(m, entries_len, available_height, key)
    IN  IF key = Char(" ") /\ after.cursor < entries_len
        THEN ActToggle(after.cursor)
        ELSE IF key = Char("a") THEN ActToggleAll ELSE ActNone

(***************************************************************************)
(* The Output widget on its own: any sequence of set and on_key.           *)
(***************************************************************************)
NoCall == [op |-> "new", n |-> 0, height |-> 0, key |-> KeyEsc, action |-> ActNone]

MaxPresses == 3     \* most PageDown keys counted in a row

\* The viewport heights handed to Output::on_key: the small ones and a
\* viewport of twenty lines.
OutputHeights == (0..MaxHeight) \cup {20}

\* The record of a call of Drawer::output: the viewport, the lines from the
\* scroll offset, the visual lines counted for each source line drawn and
\* the count returned.
NoDraw ==
    [called |-> FALSE, width |-> 0, height |-> 0, lines |-> <<>>,
     counts |-> <<>>, line_count |-> 0]

InitOutput ==
    /\ out = OutputDefault
    /\ out_last = NoCall
    /\ out_hist = [before |-> 0, presses |-> 0]
    /\ draw_last = NoDraw

OutSet ==
    \E text \in Texts \cup {HundredLines} :
        /\ out' = OutputSet(out, text)
        /\ out_last' = [NoCall EXCEPT !.op = "set"]
        /\ out_hist' = [before |-> out.scroll, presses |-> 0]
        /\ UNCHANGED notOutput

OutOnKey ==
    \E h \in OutputHeights, key \in Keys :
        /\ out' = OutputOnKey(out, h, key)
        /\ out_last' = [NoCall EXCEPT !.op = "on_key", !.height = h, !.key = key]
        /\ out_hist' =
              [before |-> out.scroll,
               presses |->
                 CASE key \notin {Ctrl("d"), KeyPageDown} -> 0
                   [] out.scroll = 0 -> 1
                   [] /\ out_hist.presses \in 1..(MaxPresses - 1)
                      /\ out_last.height = h -> out_hist.presses + 1
                   [] OTHER -> 0]
        /\ UNCHANGED notOutput

(***************************************************************************)
(* The SelectMenu widget on its own: any sequence of its public methods.   *)
(***************************************************************************)
InitSelect ==
    /\ menu = SelectMenuDefault
    /\ menu_last = NoCall

SelOnKey ==
    \E n \in 0..MaxLen, h \in 0..MaxHeight, key \in Keys :
        /\ menu' = SelectMenuOnKey(menu, n, h, key)
        /\ menu_last' = [op |-> "on_key", n |-> n, height |-> h, key |-> key,
                         action |-> SelectMenuOnKeyAction(menu, n, h, key)]
        /\ UNCHANGED notSelect

SelSaturateCursor ==
    \E n \in 0..MaxLen :
        /\ menu' = SaturateCursor(menu, n)
        /\ menu_last' = [NoCall EXCEPT !.op = "saturate_cursor", !.n = n]
        /\ UNCHANGED notSelect

SelSetCursor ==
    \E c \in 0..MaxLen :
        /\ menu' = SetCursor(menu, c)
        /\ menu_last' = [NoCall EXCEPT !.op = "set_cursor", !.n = c]
        /\ UNCHANGED notSelect

SelOnRemoveEntry ==
    \E i \in 0..MaxLen :
        /\ menu' = OnRemoveEntry(menu, i)
        /\ menu_last' = [NoCall EXCEPT !.op = "on_remove_entry", !.n = i]
        /\ UNCHANGED notSelect

(***************************************************************************)
(* RevisionDetails (src/src/mode/revision_details.rs).                     *)
(***************************************************************************)
MaxEntries == 2     \* most entries the backend returns for a revision
MaxInFlight == 2    \* most worker threads and undelivered responses at once
MaxViewHeight == 2  \* largest available height the mode is given

Revisions == {"abc123"}

\* The keys offered to the mode: one key of each group that on_key and the
\* widgets tell apart.
ModeKeys ==
    { KeyDown, KeyUp, KeyEnd, KeyPageDown, KeyTab,
      Char(" "), Char("a"), Char("d"), Char("x") }

\* Texts a backend call answers with: empty, one line, two lines.
BackendTexts == { <<>>, <<"a">>, <<"a", "\n", "a">> }

\* The status of an entry and the order `a.status.cmp(&b.status)` sorts by.
Statuses == {"Added", "Modified"}
StatusRank(s) == IF s = "Added" THEN 0 ELSE 1

EntryNames == <<"f1", "f2", "f3", "f4">>

\* RevisionInfo.entries as the backend returns them: the i-th entry is named
\* after its position, so that a reordering is visible.
BackendEntryLists ==
    { [i \in 1..Len(st) |-> [name |-> EntryNames[i], status |-> st[i]]] :
        st \in SeqsUpTo(Statuses, MaxEntries) }

Bijections(n) ==
    { f \in [1..n -> 1..n] : \A i, j \in 1..n : f[i] = f[j] => i = j }

\* sort_unstable_by(|a, b| a.status.cmp(&b.status)): some permutation in
\* non-decreasing status order; the order of equal entries is not specified.
SortUnstableByStatus(list) ==
    { p \in { [i \in 1..Len(list) |-> list[f[i]]] : f \in Bijections(Len(list)) } :
        \A i, j \in 1..Len(p) :
            i < j => StatusRank(p[i].status) <= StatusRank(p[j].status) }

\* RevisionEntry -> SelectableRevisionEntry (`Into::into`).
IntoSelectable(e) == [name |-> e.name, status |-> e.status, selected |-> FALSE]

\* SelectableRevisionEntry -> RevisionEntry, as get_selected_entries maps it.
IntoRevisionEntry(e) == [name |-> e.name, status |-> e.status]

RECURSIVE FilterSelected(_)
FilterSelected(es) ==
    IF es = <<>> THEN <<>>
    ELSE (IF Head(es).selected THEN <<IntoRevisionEntry(Head(es))>> ELSE <<>>)
         \o FilterSelected(Tail(es))

\* get_selected_entries without its filter.
GetAllEntries(es) == [i \in 1..Len(es) |-> IntoRevisionEntry(es[i])]

GetSelectedEntries(es) == FilterSelected(es)

\* A toggle that selects the entry whatever it was.
ToggleEntrySelects(es, i) == [es EXCEPT ![i + 1].selected = TRUE]

\* SelectMenuAction::Toggle(i)
ToggleEntry(es, i) == [es EXCEPT ![i + 1].selected = ~es[i + 1].selected]

\* Toggle-all that always selects every entry.
ToggleAllAlwaysSelect(es) ==
    [i \in 1..Len(es) |-> [es[i] EXCEPT !.selected = TRUE]]

\* SelectMenuAction::ToggleAll
ToggleAllEntries(es) ==
    LET all_selected == \A i \in 1..Len(es) : es[i].selected
    IN  [i \in 1..Len(es) |-> [es[i] EXCEPT !.selected = ~all_selected]]

ApplySelectAction(es, act) ==
    CASE act.a = "None" -> es
      [] act.a = "Toggle" -> ToggleEntry(es, act.i)
      [] act.a = "ToggleAll" -> ToggleAllEntries(es)

\* What a call spawned: nothing, or a worker with the values its closure
\* captured.
NoSpawn == [kind |-> "None", revision |-> "", entries |-> <<>>]
InfoThread(rev) == [kind |-> "Info", revision |-> rev, entries |-> <<>>]
DiffThread(rev, es) == [kind |-> "Diff", revision |-> rev, entries |-> es]

InFlight == Len(threads) + Len(channel)

RemoveAt(s, i) == SubSeq(s, 1, i - 1) \o SubSeq(s, i + 1, Len(s))

\* The record of the last call made on the mode: the method, its key, the
\* worker it spawned and, for a response, what it carried: the entries as
\* the backend answered them (Info), the text (Diff).
ModeCall(op, key, spawned) ==
    [op |-> op, key |-> key, spawned |-> spawned, answered |-> <<>>]

\* A worker's answer from the backend: Ok(value) or Err(error).
BackendAnswers == { [ok |-> TRUE], [ok |-> FALSE] }

\* A worker that gives up on a failed backend call and sends nothing.
WorkerDropsFailure(kind, answer) ==
    [ calls |-> 1,
      sent |-> IF answer.ok THEN << [kind |-> kind, carries |-> "value"] >>
               ELSE << >> ]

\* A worker that calls the backend a second time after a failure and sends
\* both answers.
WorkerRetries(kind, answer) ==
    [ calls |-> IF answer.ok THEN 1 ELSE 2,
      sent |-> IF answer.ok THEN << [kind |-> kind, carries |-> "value"] >>
               ELSE << [kind |-> kind, carries |-> "error"],
                       [kind |-> kind, carries |-> "error"] >> ]

\* The closure of a worker: one call of the backend, whose Ok value or Err
\* text becomes the content of the one response it sends (for Info the Err
\* text is the message of a RevisionInfo without entries).
WorkerRun(kind, answer) ==
    [ calls |-> 1,
      sent |-> << [kind |-> kind,
                   carries |-> IF answer.ok THEN "value" ELSE "error"] >> ]

\* The record of a worker's run: its kind, whether the backend call
\* succeeded, how often it called the backend and the responses it sent.
NoWorker == [kind |-> "None", ok |-> TRUE, calls |-> 0, sent |-> <<>>]

\* A request starts a worker: the workers started before it no longer
\* answer the latest request.
LatestAfterSpawn(l) ==
    [ threads |-> Append([i \in 1..Len(l.threads) |-> FALSE], TRUE),
      channel |-> [i \in 1..Len(l.channel) |-> FALSE] ]

InitMode ==
    /\ state = "Idle"
    /\ entries = <<>>
    /\ output = OutputDefault
    /\ select = SelectMenuDefault
    /\ show_full_message = FALSE
    /\ threads = <<>>
    /\ channel = <<>>
    /\ latest = [threads |-> <<>>, channel |-> <<>>]
    /\ mode_last = ModeCall("new", KeyEsc, NoSpawn)
    /\ worker_last = NoWorker
    /\ toggle_hist = <<>>

\* on_enter returning at once unless the mode is idle.
OnEnterNoOpUnlessIdle(st) == st # "Idle"

\* on_enter without its early return.
OnEnterNeverNoOp(st) == FALSE

\* on_enter returns at once when the mode is already waiting.
OnEnterIsNoOp(st) == st = "Waiting"

\* Mode::on_enter(ctx, revision)
OnEnter ==
    \E rev \in Revisions :
        /\ toggle_hist' = <<>>
        /\ worker_last' = NoWorker
        /\ UNCHANGED <<entries, channel>>
        /\ IF OnEnterIsNoOp(state)
           THEN /\ mode_last' = ModeCall("on_enter", KeyEsc, NoSpawn)
                /\ UNCHANGED <<state, output, select, show_full_message,
                               threads, latest>>
           ELSE /\ InFlight < MaxInFlight
                /\ state' = "Waiting"
                /\ output' = OutputSet(output, <<>>)
                /\ select' = SaturateCursor(select, 0)
                /\ show_full_message' = FALSE
                /\ threads' = Append(threads, "Info")
                /\ latest' = LatestAfterSpawn(latest)
                /\ mode_last' = ModeCall("on_enter", KeyEsc, InfoThread(rev))
        /\ UNCHANGED notMode

\* on_key reaches thread::spawn: Idle, the 'd' key, a non-empty entry list.
DiffSpawns(st, es, key) ==
    /\ st = "Idle"
    /\ key = Char("d")
    /\ es # <<>>

\* Mode::on_key(ctx, revision, key), with available_height =
\* viewport height - RESERVED_LINES_COUNT (saturating).
OnKeyOn(keys, heights) ==
    \E rev \in Revisions, available_height \in heights, key \in keys :
        /\ UNCHANGED channel
        /\ worker_last' = NoWorker
        /\ CASE state = "Idle" ->
                  LET act == SelectMenuOnKeyAction(select, Len(entries),
                                                   available_height, key)
                      toggled == ApplySelectAction(entries, act)
                  IN  /\ select' = SelectMenuOnKey(select, Len(entries),
                                                   available_height, key)
                      /\ entries' = toggled
                      /\ toggle_hist' =
                            IF key = Char("a")
                            THEN IF Len(toggle_hist) < 2
                                 THEN Append(toggle_hist, entries)
                                 ELSE <<toggle_hist[2], entries>>
                            ELSE <<>>
                      /\ show_full_message' =
                            IF key = KeyTab THEN ~show_full_message
                            ELSE show_full_message
                      /\ IF DiffSpawns(state, entries, key)
                         THEN /\ InFlight < MaxInFlight
                              /\ state' = "ViewDiff"
                              /\ output' = OutputSet(output, <<>>)
                              /\ threads' = Append(threads, "Diff")
                              /\ latest' = LatestAfterSpawn(latest)
                              /\ mode_last' = ModeCall("on_key", key,
                                    DiffThread(rev, GetSelectedEntries(toggled)))
                         ELSE /\ mode_last' = ModeCall("on_key", key, NoSpawn)
                              /\ UNCHANGED <<state, output, threads, latest>>
             [] state = "ViewDiff" ->
                  /\ output' = OutputOnKey(output, available_height, key)
                  /\ mode_last' = ModeCall("on_key", key, NoSpawn)
                  /\ toggle_hist' = <<>>
                  /\ UNCHANGED <<state, entries, select, show_full_message,
                                 threads, latest>>
             [] OTHER ->
                  /\ mode_last' = ModeCall("on_key", key, NoSpawn)
                  /\ toggle_hist' = <<>>
                  /\ UNCHANGED <<state, entries, output, select,
                                 show_full_message, threads, latest>>
        /\ UNCHANGED notMode

OnKey == OnKeyOn(ModeKeys, 0..MaxViewHeight)

\* A worker thread runs to its end: the backend answers and the closure
\* sends what it sends.
WorkerSend ==
    \E i \in 1..Len(threads), answer \in BackendAnswers :
        LET run == WorkerRun(threads[i], answer)
        IN  /\ threads' = RemoveAt(threads, i)
            /\ channel' = channel \o [k \in 1..Len(run.sent) |-> run.sent[k].kind]
            /\ latest' =
                  [ threads |-> RemoveAt(latest.threads, i),
                    channel |-> latest.channel
                        \o [k \in 1..Len(run.sent) |-> latest.threads[i]] ]
            /\ worker_last' = [kind |-> threads[i], ok |-> answer.ok,
                               calls |-> run.calls, sent |-> run.sent]
        /\ UNCHANGED <<state, entries, output, select, show_full_message,
                       mode_last, toggle_hist>>
        /\ UNCHANGED notMode

\* An on_response that keeps the selection of the entries it held under the
\* same name.
InfoEntriesKeepSelection(held, delivered) ==
    [i \in 1..Len(delivered) |->
        [IntoSelectable(delivered[i]) EXCEPT !.selected =
            \E j \in 1..Len(held) :
                held[j].name = delivered[i].name /\ held[j].selected]]

\* self.entries = info.entries.into_iter().map(Into::into).collect():
\* the entries held are dropped for the delivered ones, converted.
InfoEntries(held, delivered) ==
    [i \in 1..Len(delivered) |-> IntoSelectable(delivered[i])]

\* An Info arm that leaves the state as it is.
StateAfterInfoKeeps(st) == st

\* if let State::Waiting = self.state { self.state = State::Idle; }
StateAfterInfo(st) == IF st = "Waiting" THEN "Idle" ELSE st

\* Mode::on_response(Response::Info(info)); the content of the response is the
\* backend's answer as the worker sorted it (an Err(error) answer is the
\* message `error` with no entries).
OnResponseInfo ==
    /\ channel # <<>>
    /\ Head(channel) = "Info"
    /\ \E message \in BackendTexts, answered \in BackendEntryLists :
        \E sorted \in SortUnstableByStatus(answered) :
            LET state1 == StateAfterInfo(state)
            IN  /\ state' = state1
                /\ output' = IF state1 = "Idle"
                             THEN OutputSet(output, message) ELSE output
                /\ entries' = InfoEntries(entries, sorted)
                /\ select' = SaturateCursor(select, Len(sorted))
                /\ mode_last' =
                      [ModeCall("on_response_info", KeyEsc, NoSpawn)
                          EXCEPT !.answered = answered]
    /\ channel' = Tail(channel)
    /\ latest' = [latest EXCEPT !.channel = Tail(latest.channel)]
    /\ toggle_hist' = <<>>
    /\ worker_last' = NoWorker
    /\ UNCHANGED <<show_full_message, threads>>
    /\ UNCHANGED notMode

\* Mode::on_response(Response::Diff(output))
OnResponseDiff ==
    /\ channel # <<>>
    /\ Head(channel) = "Diff"
    /\ \E text \in BackendTexts :
        /\ output' = IF state = "ViewDiff" THEN OutputSet(output, text) ELSE output
        /\ mode_last' =
              [ModeCall("on_response_diff", KeyEsc, NoSpawn)
                  EXCEPT !.answered = text]
    /\ channel' = Tail(channel)
    /\ latest' = [latest EXCEPT !.channel = Tail(latest.channel)]
    /\ toggle_hist' = <<>>
    /\ worker_last' = NoWorker
    /\ UNCHANGED <<state, entries, select, show_full_message, threads>>
    /\ UNCHANGED notMode

\* The entry lists the mode can hold: an answer of the backend, sorted by
\* the worker and converted, with nothing selected.
HeldEntryLists ==
    { [i \in 1..Len(sorted) |-> IntoSelectable(sorted[i])] :
        sorted \in UNION { SortUnstableByStatus(l) : l \in BackendEntryLists } }

\* A mode as on_response can find it, with one response to deliver: Waiting
\* has an empty output, ViewDiff has entries, the cursor is on an entry.
InitOnResponse ==
    /\ state \in {"Idle", "Waiting", "ViewDiff"}
    /\ entries \in HeldEntryLists
    /\ output \in { OutputSet(OutputDefault, text) : text \in BackendTexts }
    /\ select \in { SetCursor(SelectMenuDefault, c) : c \in 0..SatSub(MaxEntries, 1) }
    /\ select.cursor <= SatSub(Len(entries), 1)
    /\ state = "Waiting" => output.text = <<>>
    /\ state = "ViewDiff" => entries # <<>>
    /\ show_full_message \in BOOLEAN
    /\ threads = <<>>
    /\ channel \in { <<"Info">>, <<"Diff">> }
    /\ latest = [threads |-> <<>>, channel |-> <<TRUE>>]
    /\ mode_last = ModeCall("new", KeyEsc, NoSpawn)
    /\ worker_last = NoWorker
    /\ toggle_hist = <<>>

\* is_waiting_response that only looks at the Waiting state.
IsWaitingResponseOnlyWaiting == state = "Waiting"

\* Mode::is_waiting_response
IsWaitingResponse ==
    CASE state = "Idle" -> FALSE
      [] state = "Waiting" -> TRUE
      [] state = "ViewDiff" -> output.text = <<>>

(***************************************************************************)
(* The asynchronous front end (src/old/tui.rs).                            *)
(***************************************************************************)
MaxSpawns == 1      \* most workers run_action starts in one behaviour

\* The characters the keyboard of the model can type: table entries of one
\* and of two characters, prefixes, a case variant ('a' for 'A') and
\* characters outside the table.
OldChars == {"q", "h", "s", "L", "C", "x", "R", "A", "a", "r", "z"}

KeyCtrlC == Ctrl("c")
KeyF1 == Named("F1")

\* Key events of the model: characters, Esc, Ctrl-C, a navigation key and a
\* key that is no character.
OldKeys == { Char(c) : c \in OldChars } \cup { KeyEsc, KeyCtrlC, KeyDown, KeyF1 }

\* ScrollView::update(key): TRUE when the scroll view consumed the key.  The
\* scroll view scrolls on the navigation keys and declines every other key.
ScrollViewUpdate(key) ==
    key \in { KeyDown, KeyUp, KeyHome, KeyEnd, KeyPageDown, KeyPageUp }

\* input::key_to_char: the character of a character key, None ("") otherwise.
KeyToChar(key) == IF key.t = "Char" THEN key.c ELSE ""

\* A dispatcher that knows no prefix: a chord is an entry or no match.
HandleKeyChordArmNoPrefix(chord) ==
    CASE chord = <<"q">> -> "Quit"
      [] chord = <<"h">> -> "Help"
      [] chord = <<"s">> -> "Status"
      [] chord = <<"l">> -> "Log"
      [] OTHER -> "NoMatch"

\* The arm of the `match &self.current_key_chord[..]` of handle_key_chord
\* that the chord selects: "Quit", "Unhandled" (a prefix arm), "NoMatch" (the
\* `_` arm) or the ActionKind of the arm.
HandleKeyChordArm(chord) ==
    CASE chord = <<"q">> -> "Quit"
      [] chord = <<"h">> -> "Help"
      [] chord = <<"s">> -> "Status"
      [] chord = <<"l">> -> "Log"
      [] chord = <<"L">> -> "Unhandled"
      [] chord = <<"L", "C">> -> "LogCount"
      [] chord = <<"e">> -> "Unhandled"
      [] chord = <<"e", "e">> -> "CurrentFullRevision"
      [] chord = <<"d">> -> "Unhandled"
      [] chord = <<"d", "d">> -> "CurrentDiffAll"
      [] chord = <<"d", "s">> -> "CurrentDiffSelected"
      [] chord = <<"D">> -> "Unhandled"
      [] chord = <<"D", "C">> -> "RevisionChanges"
      [] chord = <<"D", "D">> -> "RevisionDiffAll"
      [] chord = <<"D", "S">> -> "RevisionDiffSelected"
      [] chord = <<"c">> -> "Unhandled"
      [] chord = <<"c", "c">> -> "CommitAll"
      [] chord = <<"c", "s">> -> "CommitSelected"
      [] chord = <<"u">> -> "Update"
      [] chord = <<"m">> -> "Merge"
      [] chord = <<"R">> -> "Unhandled"
      [] chord = <<"R", "A">> -> "RevertAll"
      [] chord = <<"r">> -> "Unhandled"
      [] chord = <<"r", "s">> -> "RevertSelected"
      [] chord = <<"r", "r">> -> "UnresolvedConflicts"
      [] chord = <<"r", "o">> -> "MergeTakingOther"
      [] chord = <<"r", "l">> -> "MergeTakingLocal"
      [] chord = <<"f">> -> "Fetch"
      [] chord = <<"p">> -> "Pull"
      [] chord = <<"P">> -> "Push"
      [] chord = <<"t">> -> "Unhandled"
      [] chord = <<"t", "n">> -> "NewTag"
      [] chord = <<"b">> -> "Unhandled"
      [] chord = <<"b", "b">> -> "ListBranches"
      [] chord = <<"b", "n">> -> "NewBranch"
      [] chord = <<"b", "d">> -> "DeleteBranch"
      [] chord = <<"x">> -> "CustomAction"
      [] OTHER -> "NoMatch"

\* The HandleChordResult the selected arm returns.
HandleKeyChordResult(chord) ==
    CASE HandleKeyChordArm(chord) = "Quit" -> "Quit"
      [] HandleKeyChordArm(chord) = "Unhandled" -> "Unhandled"
      [] OTHER -> "Handled"

\* The arms whose callback is `show_action` alone.
DirectKinds ==
    { "Status", "Log", "CurrentFullRevision", "CurrentDiffAll", "RevertAll",
      "UnresolvedConflicts", "MergeTakingOther", "MergeTakingLocal", "Fetch",
      "Pull", "Push", "ListBranches" }

\* The arms that read a line with handle_input first.
PromptKinds ==
    { "RevisionChanges", "RevisionDiffAll", "CommitAll", "Update", "Merge",
      "NewTag", "NewBranch", "DeleteBranch" }

\* The arms that fetch the changed files and open the selection first.
SelectKinds == { "CurrentDiffSelected", "RevertSelected" }

\* The lines typed at a prompt: an empty one, a number, a number after a
\* blank, a blank alone, a word.
PromptLines == { <<>>, <<"7">>, <<" ", "7">>, <<" ">>, <<"x">> }

\* What input::read_line answers: Err, or Ok(line).
ReadLineErr == [ok |-> FALSE, line |-> <<>>]
ReadLineAnswers ==
    {ReadLineErr} \cup { [ok |-> TRUE, line |-> l] : l \in PromptLines }

\* What the blocking calls inside a callback answer:
\*   input: read_line -> Err ("err"), Ok of an empty line ("empty"), of a
\*          line that parses as a number ("number"), of any other ("text");
\*   files: get_current_changed_files / get_revision_changed_files ->
\*          Err ("err"), Ok(no entries) ("empty"), Ok(entries) ("some");
\*   selected: what show_select_ui returns.
Envs ==
    [ input : ReadLineAnswers,
      files : {"err", "empty", "some"},
      selected : BOOLEAN ]

\* Option<String>::None, and Some(line).
NoLine == [some |-> FALSE, line |-> <<>>]
SomeLine(line) == [some |-> TRUE, line |-> line]

\* handle_input that hands an empty line on as Some("").
HandleInputKeepsEmpty(answer) ==
    IF answer.ok THEN SomeLine(answer.line) ELSE NoLine

\* handle_input on what read_line answers: a failed or empty line is None.
HandleInput(answer) ==
    IF answer.ok /\ Len(answer.line) > 0 THEN SomeLine(answer.line) ELSE NoLine

\* str::trim, with the blank as the only white space of the model.
RECURSIVE TrimStart(_)
TrimStart(line) ==
    IF line # <<>> /\ Head(line) = " " THEN TrimStart(Tail(line)) ELSE line

RECURSIVE TrimEnd(_)
TrimEnd(line) ==
    IF line # <<>> /\ line[Len(line)] = " "
    THEN TrimEnd(SubSeq(line, 1, Len(line) - 1)) ELSE line

Trim(line) == TrimEnd(TrimStart(line))

\* A parse that accepts every text.
ParsesAnything(text) == TRUE

Digits == {"0", "1", "2", "3", "4", "5", "6", "7", "8", "9"}

\* `text.parse()` to a count succeeds: the text is digits and not empty.
ParsesAsNumber(text) ==
    text # <<>> /\ \A i \in 1..Len(text) : text[i] \in Digits

\* The ['L', 'C'] callback reaches the parse and the parse fails.
ParseFails(kind, env) ==
    /\ kind = "LogCount"
    /\ HandleInput(env.input).some
    /\ ~ParsesAsNumber(Trim(HandleInput(env.input).line))

\* The files-then-selection part shared by the selecting callbacks.
SelectOutcome(env) ==
    CASE env.files = "err" -> "shown"
      [] env.files = "empty" -> "shown"
      [] env.selected -> "spawn"
      [] OTHER -> "previous"

\* How the callback of an arm ends: "spawn" (show_action),
\* "previous" (show_previous_action_result) or "shown" (a message or an error
\* result is shown and nothing else happens).
CallbackOutcome(kind, env) ==
    CASE kind \in DirectKinds -> "spawn"
      [] kind \in PromptKinds ->
            IF ~HandleInput(env.input).some THEN "previous" ELSE "spawn"
      [] kind = "LogCount" ->
            CASE ~HandleInput(env.input).some -> "previous"
              [] ~ParseFails(kind, env) -> "spawn"
              [] OTHER -> "shown"
      [] kind \in SelectKinds -> SelectOutcome(env)
      [] kind = "CommitSelected" ->
            IF SelectOutcome(env) = "spawn"
            THEN (IF ~HandleInput(env.input).some THEN "previous" ELSE "spawn")
            ELSE SelectOutcome(env)
      [] kind = "RevisionDiffSelected" ->
            IF ~HandleInput(env.input).some THEN "previous" ELSE SelectOutcome(env)

\* The arms that select among changed files.
SelectingKinds == SelectKinds \cup {"CommitSelected", "RevisionDiffSelected"}

\* The callback reaches the fetch of the changed files: at once, or after the
\* revision was read for RevisionDiffSelected.
FetchesFiles(kind, env) ==
    /\ kind \in SelectingKinds
    /\ kind = "RevisionDiffSelected" => HandleInput(env.input).some

\* The callback that opens the selection on any list of files.
OpensSelectUiOnAnyList(kind, env) ==
    FetchesFiles(kind, env) /\ env.files \in {"empty", "some"}

\* The callback calls show_select_ui: the files were fetched and there is at
\* least one.
OpensSelectUi(kind, env) == FetchesFiles(kind, env) /\ env.files = "some"

\* The message the callback prints itself, "" when it prints none:
\* show_empty_entries, and the parse failure of LogCount.
MessageShown(kind, env) ==
    CASE FetchesFiles(kind, env) /\ env.files = "empty" -> "nothing to select"
      [] ParseFails(kind, env) ->
            "could not parse a number from "
      [] OTHER -> ""

\* The callback calls handle_input: first thing in the prompting arms, and
\* after a confirmed selection in CommitSelected.
Prompts(kind, env) ==
    \/ kind \in PromptKinds \cup {"LogCount", "RevisionDiffSelected"}
    \/ kind = "CommitSelected" /\ SelectOutcome(env) = "spawn"

\* The call the callback makes on the version control and waits for itself,
\* "None" when it makes none: the selecting arms match on the list of changed
\* files that the call returns.
FrontEndRuns(kind, env) ==
    CASE ~FetchesFiles(kind, env) -> "None"
      [] kind = "RevisionDiffSelected" -> "get_revision_changed_files"
      [] OTHER -> "get_current_changed_files"

\* The header the callback shows with show_header itself, "None" when it
\* leaves the header to show_result: Error over both messages.
HeaderShown(kind, env) ==
    CASE FetchesFiles(kind, env) /\ env.files = "empty" -> "Error"
      [] ParseFails(kind, env) -> "Error"
      [] OTHER -> "None"

\* The callback shows the error of a failed fetch with show_result.
ShowsFetchError(kind, env) == FetchesFiles(kind, env) /\ env.files = "err"

\* What a callback did: its outcome, whether it prompted and what read_line
\* answered, the header it showed, the list of files it fetched, whether it opened
\* the selection and how that ended, and the message it printed.
CallbackTrace(kind, env) ==
    [outcome |-> CallbackOutcome(kind, env),
     prompted |-> Prompts(kind, env),
     line |-> IF Prompts(kind, env) THEN env.input ELSE ReadLineErr,
     header |-> HeaderShown(kind, env),
     select_ui |-> OpensSelectUi(kind, env),
     selection |-> CASE ~OpensSelectUi(kind, env) -> "none"
                     [] env.selected -> "confirmed"
                     [] OTHER -> "cancelled",
     files |-> IF FetchesFiles(kind, env) THEN env.files ELSE "none",
     message |-> MessageShown(kind, env),
     ran |-> FrontEndRuns(kind, env)]

NoTrace ==
    [outcome |-> "None", prompted |-> FALSE, line |-> ReadLineErr,
     header |-> "None", select_ui |-> FALSE,
     selection |-> "none", files |-> "none", message |-> "",
     ran |-> "None"]

\* The custom actions loaded at startup, each by its shortcut.
CustomRegistries == { <<>>, << <<"z", "a">> >> }

\* The character '\0'.
Nul == "NUL"

\* The first test with the chord not padded: a shortcut that only starts
\* like the chord passes it.
ShortcutMatchesUnpadded(shortcut, chord) ==
    \A i \in 1..Min(Len(shortcut), Len(chord)) : shortcut[i] = chord[i]

\* First test of handle_custom_action: the shortcut zipped with the chord
\* padded with '\0' agrees everywhere, so the action is executed.
ShortcutMatches(shortcut, chord) ==
    \A i \in 1..Len(shortcut) :
        shortcut[i] = (IF i <= Len(chord) THEN chord[i] ELSE Nul)

\* A second test that every shortcut passes.
ShortcutContinuesAlways(shortcut, chord) == TRUE

\* Second test: the shortcut zipped with the chord agrees, so the loop goes on.
ShortcutContinues(shortcut, chord) ==
    \A i \in 1..Min(Len(shortcut), Len(chord)) : shortcut[i] = chord[i]

\* What the key arm of the loop of handle_custom_action does with the chord
\* as accumulated: "execute" the first action of the registry that passes
\* the first test, else "continue" when an action passes the second test,
\* else "no match"; action is the index of the action executed.
CustomResolve(registry, acc) ==
    LET n == Len(registry)
    IN  IF \E i \in 1..n : ShortcutMatches(registry[i], acc)
        THEN [kind |-> "execute",
              action |-> CHOOSE i \in 1..n :
                            /\ ShortcutMatches(registry[i], acc)
                            /\ \A j \in 1..(i - 1) :
                                  ~ShortcutMatches(registry[j], acc)]
        ELSE IF \E i \in 1..n : ShortcutContinues(registry[i], acc)
             THEN [kind |-> "continue", action |-> 0]
             ELSE [kind |-> "no match", action |-> 0]

\* An ActionResult: success and an output.
ResultOk == [success |-> TRUE, output |-> "ok"]
ResultErr == [success |-> FALSE, output |-> "error"]
ResultDefault == [success |-> TRUE, output |-> ""]
ResultHelp == [success |-> TRUE, output |-> "help"]
\* ActionResult::from_err(error)
ResultFromErr == [success |-> FALSE, output |-> "from_err"]
\* No result: show_result was not called.
NoResult == [success |-> TRUE, output |-> "none"]

ActionKinds ==
    { "Quit", "Help", "LogCount", "RevisionDiffSelected", "CommitSelected",
      "CustomAction" } \cup DirectKinds \cup PromptKinds \cup SelectKinds

\* The record of the last key event: the loop that read it, the chord as
\* accumulated, what became of it ("Handled", "Unhandled", "Quit" from
\* handle_key_chord; "Esc"; "Scrolled"; "InCustom"), the arm that ran and the
\* kind handed to run_action.
OldCall(loop, acc, result, kind, spawned) ==
    [loop |-> loop, acc |-> acc, result |-> result, kind |-> kind,
     spawned |-> spawned, trace |-> NoTrace, shown |-> "None",
     displayed |-> NoResult, result_header |-> "None", action |-> 0]

\* show_result that looks at the success of the result first.
ShowResultSuccessFirst(pend, kind, result) ==
    IF result.success THEN "Ok"
    ELSE IF kind \in pend THEN "Waiting"
    ELSE "Error"

\* show_result that never looks for a running worker.
ShowResultIgnoresPending(pend, kind, result) ==
    IF result.success THEN "Ok" ELSE "Error"

\* Tui::show_result: the header it shows over the result, by
\* has_pending_action_of_type(current_action_kind) and result.success.
ShowResult(pend, kind, result) ==
    IF kind \in pend THEN "Waiting"
    ELSE IF result.success THEN "Ok"
    ELSE "Error"

\* The record of a key event during which show_result was called with the
\* result, the kind being the current one and pend the kinds running.
WithShowResult(call, pend, kind, result) ==
    [call EXCEPT !.displayed = result,
                 !.result_header = ShowResult(pend, kind, result)]

\* A cache that keeps what it holds when the new result is a failure.
SetCachedActionResultKeepsOnFailure(c, kind, result) ==
    IF result.success THEN [c EXCEPT ![kind] = result] ELSE c

\* A cache of one slot that every kind shares.
SetCachedActionResultShared(c, kind, result) == [k \in DOMAIN c |-> result]

\* Application::set_cached_action_result: the result replaces the one cached
\* for its kind.
SetCachedActionResult(c, kind, result) == [c EXCEPT ![kind] = result]

\* Application::get_cached_action_result
GetCachedActionResult(c, kind) == c[kind]

\* The record of the last result cached.
CacheCall(kind, result, before, running) ==
    [kind |-> kind, result |-> result, before |-> before, running |-> running,
     result_header |-> "None"]

\* Tui::new, and Tui::show up to its loop: the help is shown and cached.
InitOldTuiOn(registries) ==
    /\ old_pc = "main"
    /\ current_key_chord = <<>>
    /\ previous_action_kind = "Quit"
    /\ current_action_kind = "Help"
    /\ custom_actions \in registries
    /\ pending = {}
    /\ cache = SetCachedActionResult([k \in ActionKinds |-> ResultDefault],
                                     "Help", ResultHelp)
    /\ cache_last = CacheCall("Help", ResultHelp, ResultDefault, {})
    /\ spawns = 0
    /\ old_last = WithShowResult(OldCall("main", <<>>, "None", "None", "None"),
                                 {}, "Help", ResultHelp)
    /\ alternate_screen = TRUE
    /\ raw_mode = TRUE

InitOldTui == InitOldTuiOn(CustomRegistries)

\* Application::run_action: a kind whose worker is still running is not
\* started again.
RunAction(kind) == IF kind \in pending THEN pending ELSE pending \cup {kind}

\* The Esc / Ctrl-C arm of the main loop of Tui::show.
OldEsc ==
    \E key \in {KeyEsc, KeyCtrlC} :
        /\ old_pc = "main"
        /\ IF ScrollViewUpdate(KeyEsc)
           THEN /\ old_last' = OldCall("main", current_key_chord, "Scrolled", "None", "None")
                /\ UNCHANGED <<old_pc, current_key_chord>>
           ELSE /\ old_last' = OldCall("main", current_key_chord, "Esc", "None", "None")
                /\ IF Len(current_key_chord) = 0
                   THEN old_pc' = "done" /\ UNCHANGED current_key_chord
                   ELSE current_key_chord' = <<>> /\ UNCHANGED old_pc
        /\ UNCHANGED <<previous_action_kind, current_action_kind, custom_actions,
                       pending, cache, spawns>>
        /\ UNCHANGED <<cache_last, raw_mode, alternate_screen>>
        /\ UNCHANGED notOld

\* The chord after a main loop that never clears it.
ChordAfterKeeps(acc, result) == acc

\* The chord after a main loop that clears it whatever the result.
ChordAfterClearsAlways(acc, result) == <<>>

\* The chord after the main loop matched the result of handle_key_chord,
\* clearing it on Quit as well.
ChordAfterClearsOnQuit(acc, result) ==
    IF result \in {"Handled", "Quit"} THEN <<>> ELSE acc

\* The chord after the main loop matched the result of handle_key_chord:
\* Handled clears it, Unhandled keeps it, Quit breaks out of the loop.
ChordAfter(acc, result) == IF result = "Handled" THEN <<>> ELSE acc

\* The Event::Key(key_event) arm of the main loop of Tui::show, with the
\* handle_key_chord call it makes, on a key of the set.
OldKeyOn(keys) ==
    \E key \in keys :
        /\ old_pc = "main"
        /\ UNCHANGED custom_actions
        /\ IF ScrollViewUpdate(key)
           THEN /\ old_last' = OldCall("main", current_key_chord, "Scrolled", "None", "None")
                /\ UNCHANGED <<old_pc, current_key_chord, previous_action_kind,
                               current_action_kind, pending, cache, spawns>>
           ELSE
            LET acc == IF KeyToChar(key) # ""
                       THEN Append(current_key_chord, KeyToChar(key))
                       ELSE current_key_chord
                arm == HandleKeyChordArm(acc)
            IN  CASE arm = "Quit" ->
                      /\ old_pc' = "done"
                      /\ current_key_chord' = ChordAfter(acc, "Quit")
                      /\ old_last' = OldCall("main", acc, "Quit", arm, "None")
                      /\ UNCHANGED <<previous_action_kind, current_action_kind,
                                     pending, cache, spawns>>
                  [] arm = "Unhandled" ->
                      /\ current_key_chord' = ChordAfter(acc, "Unhandled")
                      /\ old_last' = OldCall("main", acc, "Unhandled", "None", "None")
                      /\ UNCHANGED <<old_pc, previous_action_kind,
                                     current_action_kind, pending, cache, spawns>>
                  [] arm = "NoMatch" ->
                      /\ current_key_chord' = ChordAfter(acc, "Handled")
                      /\ old_last' = OldCall("main", acc, "Handled", "None", "None")
                      /\ UNCHANGED <<old_pc, previous_action_kind,
                                     current_action_kind, pending, cache, spawns>>
                  [] arm = "Help" ->
                      /\ current_action_kind' = "Help"
                      /\ current_key_chord' = ChordAfter(acc, "Handled")
                      /\ old_last' =
                            WithShowResult(OldCall("main", acc, "Handled", arm, "None"),
                                           pending, "Help", ResultHelp)
                      /\ UNCHANGED <<old_pc, previous_action_kind, pending,
                                     cache, spawns>>
                  [] arm = "CustomAction" ->
                      /\ previous_action_kind' = current_action_kind
                      /\ current_action_kind' = arm
                      /\ current_key_chord' = <<>>
                      /\ IF Len(custom_actions) > 0
                         THEN /\ old_pc' = "custom"
                              /\ old_last' = OldCall("main", acc, "InCustom", arm, "None")
                         ELSE /\ old_pc' = "main"
                              /\ old_last' = OldCall("main", acc, "Handled", arm, "None")
                      /\ UNCHANGED <<pending, cache, spawns>>
                  [] OTHER ->
                      \E env \in Envs :
                        LET outcome == CallbackOutcome(arm, env)
                        IN  /\ previous_action_kind' = current_action_kind
                            /\ current_action_kind' =
                                  IF outcome = "previous"
                                  THEN current_action_kind ELSE arm
                            /\ IF outcome = "spawn"
                               THEN /\ spawns < MaxSpawns
                                    /\ spawns' = spawns + 1
                                    /\ pending' = RunAction(arm)
                               ELSE UNCHANGED <<pending, spawns>>
                            /\ current_key_chord' = ChordAfter(acc, "Handled")
                            /\ LET call ==
                                      [OldCall("main", acc, "Handled", arm,
                                          IF outcome = "spawn" THEN arm ELSE "None")
                                       EXCEPT !.trace = CallbackTrace(arm, env),
                                              !.shown =
                                                 CASE outcome = "previous" ->
                                                        current_action_kind'
                                                   [] outcome = "spawn" -> arm
                                                   [] OTHER -> "None"]
                                   IN  old_last' =
                                         CASE outcome \in {"previous", "spawn"} ->
                                                WithShowResult(call, pending',
                                                    current_action_kind',
                                                    GetCachedActionResult(cache,
                                                        current_action_kind'))
                                           [] ShowsFetchError(arm, env) ->
                                                WithShowResult(call, pending',
                                                    current_action_kind',
                                                    ResultFromErr)
                                           [] OTHER -> call
                            /\ UNCHANGED <<old_pc, cache>>
        /\ UNCHANGED <<cache_last, raw_mode, alternate_screen>>
        /\ UNCHANGED notOld

\* A key of the model's keyboard is pressed in the main loop.
OldKey == OldKeyOn(OldKeys \ {KeyEsc, KeyCtrlC})

\* The characters of the chords whose callback prompts or selects: 'd' 's',
\* 'D' 'S', 'c' 'c', 'c' 's', 'r' 's', 'L' 'C', and those they bring along.
CallbackChars == {"d", "s", "D", "S", "c", "r", "L", "C"}

\* A key of a prompting or selecting chord is pressed in the main loop.
OldCallbackKey == OldKeyOn({ Char(c) : c \in CallbackChars })

\* The Esc / Ctrl-C arm of the loop of handle_custom_action, and the return
\* to the main loop through the ['x'] arm.
OldCustomEsc ==
    \E key \in {KeyEsc, KeyCtrlC} :
        /\ old_pc = "custom"
        /\ current_action_kind' = previous_action_kind
        /\ current_key_chord' = <<>>
        /\ old_pc' = "main"
        /\ old_last' =
              WithShowResult(OldCall("custom", current_key_chord, "Handled",
                                     "CustomCancelled", "None"),
                             pending, previous_action_kind,
                             GetCachedActionResult(cache, previous_action_kind))
        /\ UNCHANGED <<previous_action_kind, custom_actions, pending, cache, spawns>>
        /\ UNCHANGED <<cache_last, raw_mode, alternate_screen>>
        /\ UNCHANGED notOld

\* The Event::Key(key_event) arm of the loop of handle_custom_action.
OldCustomKey ==
    \E key \in OldKeys \ {KeyEsc, KeyCtrlC} :
        /\ old_pc = "custom"
        /\ LET acc == IF KeyToChar(key) # ""
                      THEN Append(current_key_chord, KeyToChar(key))
                      ELSE current_key_chord
               found == CustomResolve(custom_actions, acc)
           IN  CASE found.kind = "execute" ->
                      /\ current_key_chord' = <<>>
                      /\ old_pc' = "main"
                      /\ \E result \in {ResultOk, ResultErr} :
                            old_last' =
                              WithShowResult(
                                [OldCall("custom", acc, "Handled",
                                         "CustomExecuted", "None")
                                 EXCEPT !.trace.ran = "execute",
                                        !.action = found.action],
                                pending, current_action_kind, result)
                 [] found.kind = "continue" ->
                      /\ current_key_chord' = acc
                      /\ old_pc' = "custom"
                      /\ old_last' = OldCall("custom", acc, "InCustom", "CustomAction", "None")
                 [] OTHER ->
                      /\ current_key_chord' = <<>>
                      /\ old_pc' = "main"
                      /\ old_last' = OldCall("custom", acc, "Handled", "CustomNoMatch", "None")
        /\ UNCHANGED <<previous_action_kind, current_action_kind, custom_actions,
                       pending, cache, spawns>>
        /\ UNCHANGED <<cache_last, raw_mode, alternate_screen>>
        /\ UNCHANGED notOld

\* A worker ends: its result replaces the cached result of its kind and the
\* kind is no longer running.
OldWorkerDone ==
    \E kind \in pending, result \in {ResultOk, ResultErr} :
        /\ old_pc \in {"main", "custom"}
        /\ cache' = SetCachedActionResult(cache, kind, result)
        /\ pending' = pending \ {kind}
        /\ cache_last' =
              [CacheCall(kind, result, cache[kind], pending \ {kind})
               EXCEPT !.result_header =
                  IF old_pc = "main" /\ kind = current_action_kind
                  THEN ShowResult(pending', current_action_kind, result)
                  ELSE "None"]
        /\ UNCHANGED <<old_pc, current_key_chord, previous_action_kind,
                       current_action_kind, custom_actions, spawns, old_last,
                       raw_mode, alternate_screen>>
        /\ UNCHANGED notOld

\* The variables of the front end that neither the end of Tui::show nor a
\* failure changes.
oldLoopVars ==
    <<current_key_chord, previous_action_kind, current_action_kind,
      custom_actions, pending, cache, spawns, cache_last, old_last>>

\* A call of the loop of Tui::show or of handle_custom_action fails and its
\* `?` returns the error from Tui::show at once; show_tui unwraps it.
OldIoError ==
    /\ old_pc \in {"main", "custom"}
    /\ old_pc' = "failed"
    /\ UNCHANGED <<raw_mode, alternate_screen>>
    /\ UNCHANGED oldLoopVars
    /\ UNCHANGED notOld

\* The end of Tui::show after the loop: the colours and the cursor are
\* reset, raw mode is disabled and the alternate screen is left; each of the
\* three calls returns from Tui::show when it fails, and a failed call may or
\* may not have taken effect.
OldTeardown ==
    \E fails \in {"none", "reset", "disable_raw_mode", "leave"} :
        /\ old_pc = "done"
        /\ CASE fails = "none" ->
                  /\ raw_mode' = FALSE
                  /\ alternate_screen' = FALSE
                  /\ old_pc' = "returned"
             [] fails = "reset" ->
                  /\ UNCHANGED <<raw_mode, alternate_screen>>
                  /\ old_pc' = "failed"
             [] fails = "disable_raw_mode" ->
                  /\ raw_mode' \in BOOLEAN
                  /\ UNCHANGED alternate_screen
                  /\ old_pc' = "failed"
             [] fails = "leave" ->
                  /\ raw_mode' = FALSE
                  /\ alternate_screen' \in BOOLEAN
                  /\ old_pc' = "failed"
        /\ UNCHANGED oldLoopVars
        /\ UNCHANGED notOld

(***************************************************************************)
(* The result cache under concurrent workers: operations are started one   *)
(* after the other through action_context and show_action, and their       *)
(* workers end in any order.                                               *)
(***************************************************************************)
MaxRunning == 2     \* most workers running at the same time

\* The kinds started in the model of the cache.
CacheKinds == {"Status", "Log", "Fetch"}

\* action_context(kind, show_action) of a direct arm: the kind becomes the
\* current one, run_action starts its worker and the cached result of the
\* kind is shown.
ShowAction ==
    \E kind \in CacheKinds :
        /\ old_pc = "main"
        /\ Cardinality(pending) < MaxRunning
        /\ previous_action_kind' = current_action_kind
        /\ current_action_kind' = kind
        /\ pending' = RunAction(kind)
        /\ UNCHANGED <<old_pc, current_key_chord, custom_actions, cache,
                       spawns, cache_last, old_last, raw_mode,
                       alternate_screen>>
        /\ UNCHANGED notOld

(***************************************************************************)
(* The chord dispatcher of src/old/tui.rs on its own: a sequence of        *)
(* characters is typed from an empty chord, and every character goes       *)
(* through the push, handle_key_chord and the match on its result.         *)
(***************************************************************************)
MaxTyped == 3       \* longest sequence of characters typed

\* The shortcuts that show_help lists.
HelpShortcuts ==
    { <<"h">>, <<"q">>, <<"s">>, <<"l">>, <<"L", "C">>, <<"e", "e">>,
      <<"d", "d">>, <<"d", "s">>, <<"D", "C">>, <<"D", "D">>, <<"D", "S">>,
      <<"c", "c">>, <<"c", "s">>, <<"u">>, <<"m">>, <<"R", "A">>,
      <<"r", "s">>, <<"r", "r">>, <<"r", "o">>, <<"r", "l">>, <<"f">>,
      <<"p">>, <<"P">>, <<"t", "n">>, <<"b", "b">>, <<"b", "n">>,
      <<"b", "d">>, <<"x">> }

\* The characters that can be typed: every character of a shortcut, a
\* lower-case 'a' and a character of no shortcut.
TypedChars ==
    { "h", "q", "s", "l", "L", "C", "e", "d", "D", "S", "c", "u", "m", "R",
      "A", "r", "o", "f", "p", "P", "t", "n", "b", "x", "a", "z" }

\* The record of a resolution: the chord as accumulated, the arm of
\* handle_key_chord it selected and the HandleChordResult.
TypedCall(acc, arm, result) == [acc |-> acc, arm |-> arm, result |-> result]

InitTyped ==
    /\ typed \in SeqsUpTo(TypedChars, MaxTyped)
    /\ typed_chord = <<>>
    /\ typed_last = TypedCall(<<>>, "None", "None")

\* One character is typed: the key arm of the main loop pushes it, calls
\* handle_key_chord and matches the result.  Quit ends the loop.
TypeChar ==
    /\ typed # <<>>
    /\ typed_last.result # "Quit"
    /\ LET acc == Append(typed_chord, Head(typed))
       IN  /\ typed_chord' = ChordAfter(acc, HandleKeyChordResult(acc))
           /\ typed_last' = TypedCall(acc, HandleKeyChordArm(acc),
                                      HandleKeyChordResult(acc))
    /\ typed' = Tail(typed)
    /\ UNCHANGED notTyped

\* Nothing has been typed and nothing will be.
TypedAtRest == typed = <<>> /\ InitTyped

(***************************************************************************)
(* The synchronous front end (src/src/tui.rs): every operation runs to its *)
(* end inside handle_command, so the chord is all the state there is.      *)
(***************************************************************************)
\* The characters the keyboard of the model can type: every character of
\* the table of handle_command, a lower-case 'a' and a character outside.
TuiChars ==
    { "q", "h", "s", "l", "d", "c", "u", "m", "R", "A", "a", "r", "o", "f",
      "p", "P", "t", "n", "b", "x", "z" }

\* Key events of the model: characters, Esc and Ctrl-C.
TuiKeys == { Char(c) : c \in TuiChars } \cup { KeyEsc, KeyCtrlC }

\* input::key_to_char on a character key.
KeyToCharacter(key) == key.c

\* The arm of the `match &self.current_key_chord[..]` of handle_command that
\* the chord selects: "Quit", "Unhandled" (a prefix arm), "NoMatch" (the `_`
\* arm), "help", "custom" or the version_control method the arm calls.
HandleCommandArm(chord) ==
    CASE chord = <<"q">> -> "Quit"
      [] chord = <<"h">> -> "help"
      [] chord = <<"s">> -> "status"
      [] chord = <<"l">> -> "Unhandled"
      [] chord = <<"l", "l">> -> "log"
      [] chord = <<"d">> -> "Unhandled"
      [] chord = <<"d", "d">> -> "diff"
      [] chord = <<"d", "c">> -> "changes"
      [] chord = <<"c">> -> "Unhandled"
      [] chord = <<"c", "c">> -> "commit_all"
      [] chord = <<"c", "s">> -> "commit_selected"
      [] chord = <<"u">> -> "update"
      [] chord = <<"m">> -> "merge"
      [] chord = <<"R">> -> "Unhandled"
      [] chord = <<"R", "a">> \/ chord = <<"R", "A">> -> "revert_all"
      [] chord = <<"r">> -> "Unhandled"
      [] chord = <<"r", "s">> -> "revert_selected"
      [] chord = <<"r", "r">> -> "conflicts"
      [] chord = <<"r", "o">> -> "take_other"
      [] chord = <<"r", "l">> -> "take_local"
      [] chord = <<"f">> -> "fetch"
      [] chord = <<"p">> -> "pull"
      [] chord = <<"P">> -> "push"
      [] chord = <<"t">> -> "Unhandled"
      [] chord = <<"t", "n">> -> "create_tag"
      [] chord = <<"b">> -> "Unhandled"
      [] chord = <<"b", "b">> -> "list_branches"
      [] chord = <<"b", "n">> -> "create_branch"
      [] chord = <<"b", "d">> -> "close_branch"
      [] chord = <<"x">> -> "custom"
      [] OTHER -> "NoMatch"

\* The HandleChordResult the selected arm returns.
HandleCommandResult(chord) ==
    CASE HandleCommandArm(chord) = "Quit" -> "Quit"
      [] HandleCommandArm(chord) = "Unhandled" -> "Unhandled"
      [] OTHER -> "Handled"

\* The shortcut that show_help prints for an operation.
HelpShortcut(op) ==
    CASE op = "help" -> <<"h">>
      [] op = "Quit" -> <<"q">>
      [] op = "status" -> <<"s">>
      [] op = "log" -> <<"l", "l">>
      [] op = "diff" -> <<"d", "d">>
      [] op = "changes" -> <<"d", "c">>
      [] op = "commit_all" -> <<"c", "c">>
      [] op = "commit_selected" -> <<"c", "s">>
      [] op = "update" -> <<"u">>
      [] op = "merge" -> <<"m">>
      [] op = "revert_all" -> <<"R", "A">>
      [] op = "revert_selected" -> <<"r", "s">>
      [] op = "conflicts" -> <<"r", "r">>
      [] op = "take_other" -> <<"r", "o">>
      [] op = "take_local" -> <<"r", "l">>
      [] op = "fetch" -> <<"f">>
      [] op = "pull" -> <<"p">>
      [] op = "push" -> <<"P">>
      [] op = "create_tag" -> <<"t", "n">>
      [] op = "list_branches" -> <<"b", "b">>
      [] op = "create_branch" -> <<"b", "n">>
      [] op = "close_branch" -> <<"b", "d">>
      [] op = "custom" -> <<"x">>

\* The arms that call their method at once.
DirectOps ==
    { "status", "log", "revert_all", "conflicts", "take_other", "take_local",
      "fetch", "pull", "push", "list_branches" }

\* The arms that read a line with handle_input first.
PromptOps ==
    { "diff", "changes", "commit_all", "update", "merge", "create_tag",
      "create_branch", "close_branch" }

\* What the blocking calls inside an arm answer:
\*   input: handle_input -> None ("none") or Some(text) ("text");
\*   files: get_files_to_commit -> Err ("err") or Ok(entries) ("some");
\*   selected: what show_select_ui returns.
TuiEnvs ==
    [ input : {"none", "text"}, files : {"err", "some"}, selected : BOOLEAN ]

\* The version_control method an arm ends up calling, "None" when the arm
\* gives up before it.
MethodRun(arm, env) ==
    CASE arm \in DirectOps -> arm
      [] arm \in PromptOps -> IF env.input = "none" THEN "None" ELSE arm
      [] arm = "commit_selected" ->
            IF env.files = "some" /\ env.selected /\ env.input # "none"
            THEN arm ELSE "None"
      [] arm = "revert_selected" ->
            IF env.files = "some" /\ env.selected THEN arm ELSE "None"
      [] OTHER -> "None"

\* The record of the last key event: the loop that read it, the chord as
\* accumulated (for Esc and Ctrl-C: the chord as it was), what became of it
\* ("Handled", "Unhandled", "Quit" from handle_command; "Esc"; "InCustom"),
\* the arm that ran and the method it called.
TuiCall(loop, acc, result, arm, ran) ==
    [loop |-> loop, acc |-> acc, result |-> result, arm |-> arm, ran |-> ran]

\* Tui::new, and Tui::show up to its loop.
InitTui ==
    /\ tui_pc = "main"
    /\ tui_key_chord = <<>>
    /\ custom_commands \in CustomRegistries
    /\ tui_last = TuiCall("main", <<>>, "None", "None", "None")

\* The test of the Esc / Ctrl-C arm, taken as true whatever the chord.
EscBreaksAlways(chord) == TRUE

\* The test of the Esc / Ctrl-C arm of the main loop: break on an empty chord.
EscBreaks(chord) == Len(chord) = 0

\* The Esc / Ctrl-C arm of the main loop of Tui::show.
TuiEsc ==
    \E key \in {KeyEsc, KeyCtrlC} :
        /\ tui_pc = "main"
        /\ tui_last' = TuiCall("main", tui_key_chord, "Esc", "None", "None")
        /\ IF EscBreaks(tui_key_chord)
           THEN tui_pc' = "done" /\ UNCHANGED tui_key_chord
           ELSE tui_key_chord' = <<>> /\ UNCHANGED tui_pc
        /\ UNCHANGED custom_commands
        /\ UNCHANGED notTui

\* The `key_event` arm of the main loop of Tui::show, with the
\* handle_command call it makes.
TuiKey ==
    \E key \in TuiKeys \ {KeyEsc, KeyCtrlC}, env \in TuiEnvs :
        /\ tui_pc = "main"
        /\ LET acc == Append(tui_key_chord, KeyToCharacter(key))
               arm == HandleCommandArm(acc)
               result == HandleCommandResult(acc)
           IN  CASE result = "Quit" ->
                      /\ tui_pc' = "done"
                      /\ tui_key_chord' = ChordAfter(acc, result)
                      /\ tui_last' = TuiCall("main", acc, result, arm, "None")
                 [] arm = "custom" /\ Len(custom_commands) > 0 ->
                      /\ tui_pc' = "custom"
                      /\ tui_key_chord' = <<>>
                      /\ tui_last' = TuiCall("main", acc, "InCustom", arm, "None")
                 [] OTHER ->
                      /\ tui_pc' = "main"
                      /\ tui_key_chord' = ChordAfter(acc, result)
                      /\ tui_last' = TuiCall("main", acc, result, arm,
                                             MethodRun(arm, env))
        /\ UNCHANGED custom_commands
        /\ UNCHANGED notTui

\* The Esc / Ctrl-C arm of the loop of handle_custom_command, and the return
\* to the main loop through the ['x'] arm.
TuiCustomEsc ==
    \E key \in {KeyEsc, KeyCtrlC} :
        /\ tui_pc = "custom"
        /\ tui_key_chord' = <<>>
        /\ tui_pc' = "main"
        /\ tui_last' = TuiCall("custom", tui_key_chord, "Esc", "custom", "None")
        /\ UNCHANGED custom_commands
        /\ UNCHANGED notTui

\* The `key_event` arm of the loop of handle_custom_command.
TuiCustomKey ==
    \E key \in TuiKeys \ {KeyEsc, KeyCtrlC} :
        /\ tui_pc = "custom"
        /\ LET acc == Append(tui_key_chord, KeyToCharacter(key))
               n == Len(custom_commands)
           IN  IF \E i \in 1..n : ShortcutMatches(custom_commands[i], acc)
               THEN /\ tui_key_chord' = <<>>
                    /\ tui_pc' = "main"
                    /\ tui_last' = TuiCall("custom", acc, "Handled", "custom",
                                           "execute")
               ELSE IF \E i \in 1..n : ShortcutContinues(custom_commands[i], acc)
                    THEN /\ tui_key_chord' = acc
                         /\ tui_pc' = "custom"
                         /\ tui_last' = TuiCall("custom", acc, "InCustom",
                                                "custom", "None")
                    ELSE /\ tui_key_chord' = <<>>
                         /\ tui_pc' = "main"
                         /\ tui_last' = TuiCall("custom", acc, "Handled",
                                                "custom", "None")
        /\ UNCHANGED custom_commands
        /\ UNCHANGED notTui

\* The synchronous front end before any key, with no custom command.
TuiAtRest == custom_commands = <<>> /\ InitTui

(***************************************************************************)
(* ReadLine (src/src/mode.rs).  The input String is the sequence of its    *)
(* characters; a byte offset into it counts the UTF-8 length of each.      *)
(***************************************************************************)
MaxInput == 4       \* longest input that still takes a typed character

\* The characters that can be typed: word characters (one of two bytes),
\* a blank and two characters that are neither.
ReadChars == {"a", "_", "é", " ", "-", "."}

HelloWorld == <<"h", "e", "l", "l", "o", " ", "w", "o", "r", "l", "d">>

\* char::is_alphanumeric on the characters of the model.
IsAlphanumeric(c) == c \in {"a", "é", "h", "e", "l", "o", "w", "r", "d"}

\* is_word of the Ctrl-w arm.
IsWord(c) == IsAlphanumeric(c) \/ c = "_"

\* char::is_ascii_whitespace
IsAsciiWhitespace(c) == c \in {" ", "\t", "\n", "\f", "\r"}

\* char::len_utf8
LenUtf8(c) == IF c = "é" THEN 2 ELSE 1

\* str::len: the length in bytes.
RECURSIVE ByteLen(_)
ByteLen(s) == IF s = <<>> THEN 0 ELSE LenUtf8(Head(s)) + ByteLen(Tail(s))

\* The three closures the Ctrl-w arm hands to rfind_boundary, by the class
\* of the last character: the test of the character that ends the run.
Boundary(test, c) ==
    CASE test = "word" -> ~IsWord(c)
      [] test = "whitespace" -> IsWord(c) \/ ~IsAsciiWhitespace(c)
      [] test = "other" -> IsWord(c) \/ IsAsciiWhitespace(c)

\* Chars::rfind: the index of the last character that satisfies the test, 0
\* for None; the iterator is left holding the characters before it.
RFind(chars, test) ==
    IF \E i \in 1..Len(chars) : Boundary(test, chars[i])
    THEN CHOOSE i \in 1..Len(chars) :
            /\ Boundary(test, chars[i])
            /\ \A j \in (i + 1)..Len(chars) : ~Boundary(test, chars[j])
    ELSE 0

\* rfind_boundary forgetting the length of the character it found.
RfindBoundaryBeforeFound(chars, test) ==
    IF RFind(chars, test) = 0 THEN 0
    ELSE ByteLen(SubSeq(chars, 1, RFind(chars, test) - 1))

\* rfind_boundary of the Ctrl-w arm: the byte offset just after the last
\* character that satisfies the test, 0 when there is none.
RfindBoundary(chars, test) ==
    IF RFind(chars, test) = 0 THEN 0
    ELSE ByteLen(SubSeq(chars, 1, RFind(chars, test) - 1))
         + LenUtf8(chars[RFind(chars, test)])

\* What String::truncate leaves when new_len is no character boundary: it
\* panics.
Panicked == <<"panic">>

\* String::truncate(new_len)
Truncate(s, new_len) ==
    IF new_len >= ByteLen(s) THEN s
    ELSE IF \E k \in 0..Len(s) : ByteLen(SubSeq(s, 1, k)) = new_len
         THEN SubSeq(s, 1, CHOOSE k \in 0..Len(s) : ByteLen(SubSeq(s, 1, k)) = new_len)
         ELSE Panicked

\* A Ctrl-w that deletes trailing blanks together with the word before them.
CtrlWThroughBlanks(input) ==
    LET nb == { i \in 1..Len(input) : ~IsAsciiWhitespace(input[i]) }
        e == IF nb = {} THEN 0 ELSE CHOOSE i \in nb : \A j \in nb : j <= i
        bs == { i \in 1..e : ~IsWord(input[i]) }
        b == IF bs = {} THEN 0 ELSE CHOOSE i \in bs : \A j \in bs : j <= i
    IN  SubSeq(input, 1, b)

\* The Key::Ctrl('w') arm of ReadLine::on_key.
CtrlW(input) ==
    IF input = <<>> THEN input
    ELSE LET c == input[Len(input)]
             chars == SubSeq(input, 1, Len(input) - 1)
             len == IF IsWord(c) THEN RfindBoundary(chars, "word")
                    ELSE IF IsAsciiWhitespace(c)
                    THEN RfindBoundary(chars, "whitespace")
                    ELSE RfindBoundary(chars, "other")
         IN  Truncate(input, len)

KeyBackspace == Named("Backspace")

\* The Key::Backspace | Key::Ctrl('h') arm of ReadLine::on_key.
Backspace(input) ==
    IF input = <<>> THEN input
    ELSE Truncate(input, ByteLen(SubSeq(input, 1, Len(input) - 1)))

\* ReadLine::on_key(key)
ReadLineOnKey(input, key) ==
    CASE key \in {KeyHome, Ctrl("u")} -> <<>>
      [] key = Ctrl("w") -> CtrlW(input)
      [] key \in {KeyBackspace, Ctrl("h")} -> Backspace(input)
      [] key.t = "Char" -> Append(input, key.c)
      [] OTHER -> input

\* The keys a ReadLine is given.
ReadLineKeys ==
    { KeyHome, Ctrl("u"), Ctrl("w"), KeyBackspace, Ctrl("h"), KeyDown }
    \cup { Char(c) : c \in ReadChars }

\* ReadLine::default, or a ReadLine into which "hello world" was typed.
InitReadLine ==
    /\ rl \in {<<>>, HelloWorld}
    /\ rl_last = [op |-> "new", key |-> KeyEsc]
    /\ rl_hist = <<>>

\* ReadLine::on_key(key)
RlOnKey ==
    \E key \in ReadLineKeys :
        /\ key.t = "Char" => Len(rl) < MaxInput
        /\ rl' = ReadLineOnKey(rl, key)
        /\ rl_last' = [op |-> "on_key", key |-> key]
        /\ rl_hist' = IF key # Ctrl("w") THEN <<>>
                      ELSE IF Len(rl_hist) = 2 THEN <<rl_hist[2], rl>>
                      ELSE Append(rl_hist, rl)
        /\ UNCHANGED notReadLine

\* ReadLine::clear
RlClear ==
    /\ rl' = <<>>
    /\ rl_last' = [op |-> "clear", key |-> KeyEsc]
    /\ rl_hist' = <<>>
    /\ UNCHANGED notReadLine

\* A ReadLine that nothing was typed into.
ReadLineAtRest == rl = <<>> /\ InitReadLine

(***************************************************************************)
(* Specifications.                                                         *)
(***************************************************************************)
\* A component that a specification does not run stays in one initial state.
OldTuiAtRest == custom_actions = <<>> /\ InitOldTui

NextOutput == OutSet \/ OutOnKey

\* Every component in its initial state, the front ends with no custom entry.
InitAtRest ==
    /\ InitOutput /\ InitSelect /\ InitMode
    /\ OldTuiAtRest /\ TuiAtRest /\ TypedAtRest /\ ReadLineAtRest

SpecOutput == InitAtRest /\ [][NextOutput]_vars

NextSelect == SelOnKey \/ SelSaturateCursor \/ SelSetCursor \/ SelOnRemoveEntry

SpecSelect == InitAtRest /\ [][NextSelect]_vars

NextMode == OnEnter \/ OnKey \/ WorkerSend \/ OnResponseInfo \/ OnResponseDiff

SpecMode == InitAtRest /\ [][NextMode]_vars

\* The mode with workers that finish and a channel whose responses are
\* received: a thread that was spawned runs to its send, and the front end
\* keeps polling the channel and hands each response to on_response.
\* The keys it is offered are the one that starts a worker and one that
\* moves the cursor or scrolls the output, in the tallest viewport.
LiveKeys == { Char("d"), KeyPageDown }

OnKeyLive == OnKeyOn(LiveKeys, {MaxViewHeight})

NextModeLive ==
    OnEnter \/ OnKeyLive \/ WorkerSend \/ OnResponseInfo \/ OnResponseDiff

SpecModeLive ==
    /\ InitAtRest /\ [][NextModeLive]_vars
    /\ WF_vars(WorkerSend)
    /\ WF_vars(OnResponseInfo)
    /\ WF_vars(OnResponseDiff)

NextOnResponse == OnResponseInfo \/ OnResponseDiff

StartOnResponse ==
    /\ InitOutput /\ InitSelect /\ InitOnResponse
    /\ OldTuiAtRest /\ TuiAtRest /\ TypedAtRest /\ ReadLineAtRest

\* on_response on its own: one response of either kind is delivered to a
\* mode in any of its states.
SpecOnResponse == StartOnResponse /\ [][NextOnResponse]_vars

NextCallbacks == OldCallbackKey \/ OldWorkerDone

\* The callbacks of the prompting and selecting chords, with no custom action.
SpecCallbacks == InitAtRest /\ [][NextCallbacks]_vars

NextOldTui ==
    \/ OldEsc \/ OldKey \/ OldCustomEsc \/ OldCustomKey \/ OldWorkerDone
    \/ OldIoError \/ OldTeardown

StartOldTui ==
    /\ InitOutput /\ InitSelect /\ InitMode
    /\ InitOldTui /\ TuiAtRest /\ TypedAtRest /\ ReadLineAtRest

SpecOldTui == StartOldTui /\ [][NextOldTui]_vars

NextCache == ShowAction \/ OldWorkerDone

SpecCache == InitAtRest /\ [][NextCache]_vars

NextTui == TuiEsc \/ TuiKey \/ TuiCustomEsc \/ TuiCustomKey

StartTui ==
    /\ InitOutput /\ InitSelect /\ InitMode
    /\ OldTuiAtRest /\ InitTui /\ TypedAtRest /\ ReadLineAtRest

SpecTui == StartTui /\ [][NextTui]_vars

NextReadLine == RlOnKey \/ RlClear

StartReadLine ==
    /\ InitOutput /\ InitSelect /\ InitMode
    /\ OldTuiAtRest /\ TuiAtRest /\ TypedAtRest /\ InitReadLine

SpecReadLine == StartReadLine /\ [][NextReadLine]_vars

NextTyped == TypeChar

StartTyped ==
    /\ InitOutput /\ InitSelect /\ InitMode
    /\ OldTuiAtRest /\ TuiAtRest /\ InitTyped /\ ReadLineAtRest

SpecTyped == StartTyped /\ [][NextTyped]_vars

(***************************************************************************)
(* The custom actions of src/old/tui.rs on their own: any registry of      *)
(* actions is loaded, the prefix key opens the loop of                     *)
(* handle_custom_action and keys are typed into it.                        *)
(***************************************************************************)
MaxActions == 2     \* most custom actions registered
MaxShortcut == 2    \* longest shortcut of a custom action

\* The characters of the shortcuts.
ShortcutChars == {"z", "a"}

\* The registries loaded at startup: no action or more, each with a
\* shortcut of one character or more.
CustomTables ==
    SeqsUpTo(SeqsUpTo(ShortcutChars, MaxShortcut) \ {<<>>}, MaxActions)

\* The prefix key 'x' is pressed in the main loop.
OldCustomOpen == OldKeyOn({Char("x")})

NextCustom == OldCustomOpen \/ OldCustomKey \/ OldCustomEsc

StartCustom ==
    /\ InitOutput /\ InitSelect /\ InitMode
    /\ InitOldTuiOn(CustomTables) /\ TuiAtRest /\ TypedAtRest /\ ReadLineAtRest

SpecCustom == StartCustom /\ [][NextCustom]_vars

(***************************************************************************)
(* Drawer::output (src/src/ui.rs) on its own: an Output holding any text   *)
(* at any scroll offset is drawn into viewports of any size.               *)
(***************************************************************************)
MaxDrawLen == 4     \* longest text drawn, in characters
MaxWidth == 5       \* widest viewport, in columns

\* The columns a tab takes: tab_bytes = [b' '; 4].
TabWidth == 4

\* The characters of a drawn text: a letter, a tab and the line separator.
DrawChars == {"a", "\t", "\n"}

\* str::lines(): the text split at "\n", without a final empty line.
RECURSIVE Lines(_)
Lines(text) ==
    IF text = <<>> THEN <<>>
    ELSE IF \E k \in 1..Len(text) : text[k] = "\n"
         THEN LET k == CHOOSE k \in 1..Len(text) :
                          /\ text[k] = "\n"
                          /\ \A j \in 1..(k - 1) : text[j] # "\n"
              IN  <<SubSeq(text, 1, k - 1)>>
                  \o Lines(SubSeq(text, k + 1, Len(text)))
         ELSE <<text>>

\* Output::lines_from_scroll: text.lines().skip(scroll)
LinesFromScroll(o) ==
    LET ls == Lines(o.text) IN SubSeq(ls, o.scroll + 1, Len(ls))

\* The inner loop of Drawer::output over the characters of a line, from
\* column x: how often it finds x >= width, subtracting the width each time.
RECURSIVE LineWraps(_, _, _)
LineWraps(line, x, width) ==
    IF line = <<>> THEN 0
    ELSE LET x1 == x + (IF Head(line) = "\t" THEN TabWidth ELSE 1)
         IN  IF x1 >= width
             THEN 1 + LineWraps(Tail(line), x1 - width, width)
             ELSE LineWraps(Tail(line), x1, width)

\* The outer loop of Drawer::output: the visual lines counted for each source
\* line it draws; it breaks after the line that brings line_count to the
\* viewport height or beyond.
RECURSIVE DrawLines(_, _, _, _)
DrawLines(lines, line_count, width, height) ==
    IF lines = <<>> THEN <<>>
    ELSE LET c == LineWraps(Head(lines), 0, width) + 1
         IN  IF line_count + c >= height THEN <<c>>
             ELSE <<c>> \o DrawLines(Tail(lines), line_count + c, width, height)

RECURSIVE SumSeq(_)
SumSeq(q) == IF q = <<>> THEN 0 ELSE Head(q) + SumSeq(Tail(q))

\* An Output as set and scrolled: any text, a scroll offset on one of its
\* lines.
InitDrawer ==
    /\ out \in { [OutputSet(OutputDefault, text) EXCEPT !.scroll = sc] :
                    text \in SeqsUpTo(DrawChars, MaxDrawLen), sc \in 0..MaxDrawLen }
    /\ out.scroll <= SatSub(out.line_count, 1)
    /\ out_last = NoCall
    /\ out_hist = [before |-> 0, presses |-> 0]
    /\ draw_last = NoDraw

\* Drawer::output(&output) with a viewport of the size.
DrawOutput ==
    \E width \in 1..MaxWidth, height \in 1..MaxHeight :
        LET lines == LinesFromScroll(out)
            counts == DrawLines(lines, 0, width, height)
        IN  /\ draw_last' = [called |-> TRUE, width |-> width, height |-> height,
                             lines |-> lines, counts |-> counts,
                             line_count |-> SumSeq(counts)]
            /\ UNCHANGED outVars
            /\ UNCHANGED notDrawer

NextDrawer == DrawOutput

StartDrawer ==
    /\ InitDrawer /\ InitSelect /\ InitMode
    /\ OldTuiAtRest /\ TuiAtRest /\ TypedAtRest /\ ReadLineAtRest

SpecDrawer == StartDrawer /\ [][NextDrawer]_vars

(***************************************************************************)
(* C2: immediately after every Output::on_key(height, key) the scroll      *)
(* offset satisfies 0 <= scroll <= max(0, line_count - height).            *)
(***************************************************************************)
ScrollOffsetInvariant ==
    out_last.op = "on_key" =>
        /\ 0 <= out.scroll
        /\ out.scroll <= Max(0, out.line_count - out_last.height)

\* An End key has scrolled a text longer than the viewport to its last page.
ScrollOffsetWitness ==
    /\ out_last.op = "on_key"
    /\ out_last.key = KeyEnd
    /\ out_last.height = 1
    /\ out.line_count = 3
    /\ out.scroll = 2

(***************************************************************************)
(* C3: after every SelectMenu::on_key(N, height, key) the cursor satisfies *)
(* 0 <= cursor <= max(0, N - 1).                                           *)
(***************************************************************************)
SelectCursorInvariant ==
    menu_last.op = "on_key" =>
        /\ 0 <= menu.cursor
        /\ menu.cursor <= Max(0, menu_last.n - 1)

\* A key pressed with the cursor beyond a shortened list pulled it back to
\* the last entry.
SelectCursorWitness ==
    /\ menu_last.op = "on_key"
    /\ menu_last.key = KeyDown
    /\ menu_last.n = 2
    /\ menu.cursor = 1

(***************************************************************************)
(* C4 (as claimed): after every SelectMenu::on_key(N, height, key), for    *)
(* any height including 0, scroll <= cursor < scroll + height.             *)
(***************************************************************************)
CursorInWindowAnyHeight ==
    menu_last.op = "on_key" =>
        /\ menu.scroll <= menu.cursor
        /\ menu.cursor < menu.scroll + menu_last.height

(***************************************************************************)
(* C4 (amended): after every SelectMenu::on_key(N, height, key) with a     *)
(* viewport height >= 1 the cursor lies inside the visible window:         *)
(* scroll <= cursor < scroll + height.                                     *)
(***************************************************************************)
CursorInWindow ==
    (menu_last.op = "on_key" /\ menu_last.height >= 1) =>
        /\ menu.scroll <= menu.cursor
        /\ menu.cursor < menu.scroll + menu_last.height

\* The window has slid down to keep the cursor on its last row.
CursorInWindowWitness ==
    /\ menu_last.op = "on_key"
    /\ menu_last.height = 2
    /\ menu.cursor = 2
    /\ menu.scroll = 1

(***************************************************************************)
(* C1: at most one worker of each kind is in flight at any time: a request *)
(* to start a kind whose worker is still running never starts a second     *)
(* concurrent worker.  For RevisionDetails the kinds are its two workers,  *)
(* the Info worker of on_enter and the Diff worker of the 'd' key.         *)
(***************************************************************************)
WorkersOfKind(k) == { i \in 1..Len(threads) : threads[i] = k }

AtMostOneWorkerPerKind ==
    \A k \in {"Info", "Diff"} : Cardinality(WorkersOfKind(k)) <= 1

(***************************************************************************)
(* C10: in RevisionDetails Idle state, when all entries share the same     *)
(* selection state (the empty list included), two toggle-all keys ('a') in *)
(* a row restore the original selection of every entry.                    *)
(***************************************************************************)
SameSelection(es) ==
    \/ \A i \in 1..Len(es) : es[i].selected
    \/ \A i \in 1..Len(es) : ~es[i].selected

ToggleAllInvolutive ==
    (Len(toggle_hist) = 2 /\ SameSelection(toggle_hist[1])) =>
        entries = toggle_hist[1]

\* Two 'a' keys in a row were pressed on two entries that were both selected.
ToggleAllTwiceWitness ==
    /\ state = "Idle"
    /\ Len(toggle_hist) = 2
    /\ Len(toggle_hist[1]) = 2
    /\ \A i \in 1..2 : toggle_hist[1][i].selected
    /\ \A i \in 1..2 : ~toggle_hist[2][i].selected
    /\ entries = toggle_hist[1]

(***************************************************************************)
(* C5: from an empty chord, 'L' leaves the pending prefix "L" and starts   *)
(* no operation; a following 'C' resolves to the log-with-count operation; *)
(* a following 'x' instead resolves to no match, starts no operation and   *)
(* clears the chord.                                                       *)
(***************************************************************************)
PrefixThenResolve ==
    old_last.loop = "main" /\ old_last.result \in {"Handled", "Unhandled", "Quit"} =>
        /\ old_last.acc = <<"L">> =>
              /\ old_last.result = "Unhandled"
              /\ old_last.spawned = "None"
              /\ current_key_chord = <<"L">>
        /\ old_last.acc = <<"L", "C">> =>
              /\ old_last.result = "Handled"
              /\ old_last.kind = "LogCount"
              /\ current_key_chord = <<>>
        /\ old_last.acc = <<"L", "x">> =>
              /\ old_last.result = "Handled"
              /\ old_last.kind = "None"
              /\ old_last.spawned = "None"
              /\ current_key_chord = <<>>

\* 'L' then 'C' was typed, a count was entered and the log-with-count worker
\* is running.
PrefixThenResolveWitness ==
    /\ old_last.acc = <<"L", "C">>
    /\ old_last.spawned = "LogCount"
    /\ "LogCount" \in pending
    /\ current_key_chord = <<>>

(***************************************************************************)
(* C6: for a sequence of characters typed from an empty chord, no match is *)
(* reported exactly at the characters after which the accumulated chord is *)
(* neither a shortcut nor a strict prefix of one, and a strict prefix that *)
(* is no shortcut stays pending.                                           *)
(***************************************************************************)
IsStrictPrefix(p) ==
    \E sc \in HelpShortcuts : Len(p) < Len(sc) /\ SubSeq(sc, 1, Len(p)) = p

NoMatchAtFirstDeadChord ==
    typed_last.result # "None" =>
        /\ typed_last.arm = "NoMatch" <=>
              (typed_last.acc \notin HelpShortcuts /\ ~IsStrictPrefix(typed_last.acc))
        /\ typed_last.arm = "Unhandled" <=>
              (typed_last.acc \notin HelpShortcuts /\ IsStrictPrefix(typed_last.acc))
        /\ typed_last.arm = "NoMatch" => typed_chord = <<>>
        /\ typed_last.arm = "Unhandled" => typed_chord = typed_last.acc

\* 'd' was pending and 'z' ended it: no match at the second character.
NoMatchAtFirstDeadChordWitness ==
    /\ typed_last.acc = <<"d", "z">>
    /\ typed_last.arm = "NoMatch"
    /\ typed_chord = <<>>
    /\ typed # <<>>

(***************************************************************************)
(* C7 as stated: the chord is empty after every resolution that yields     *)
(* Handled or Quit, and left as accumulated after one that yields          *)
(* Unhandled.                                                              *)
(***************************************************************************)
ChordEmptyAfterHandledOrQuit ==
    /\ old_last.result \in {"Handled", "Quit"} => current_key_chord = <<>>
    /\ old_last.result = "Unhandled" => current_key_chord = old_last.acc

(***************************************************************************)
(* C7 amended: the chord is empty after every resolution that yields       *)
(* Handled, and left as accumulated after one that yields Unhandled or     *)
(* Quit; Quit ends the main loop.                                          *)
(***************************************************************************)
ChordEmptyAfterHandled ==
    /\ old_last.result = "Handled" => current_key_chord = <<>>
    /\ old_last.result = "Unhandled" => current_key_chord = old_last.acc
    /\ old_last.result = "Quit" =>
          current_key_chord = old_last.acc /\ old_pc \notin {"main", "custom"}

\* 'q' ended the main loop with the chord still holding it.
ChordEmptyAfterHandledWitness ==
    /\ old_last.result = "Quit"
    /\ old_last.acc = <<"q">>
    /\ current_key_chord = <<"q">>
    /\ old_pc = "done"

(***************************************************************************)
(* C8: Esc or Ctrl-C with a non-empty chord clears the chord, ends nothing *)
(* and starts no operation; with an empty chord in the main loop it ends   *)
(* the main loop.                                                          *)
(***************************************************************************)
EscClearsOrQuits ==
    tui_last.result = "Esc" =>
        /\ tui_last.acc # <<>> =>
              /\ tui_key_chord = <<>>
              /\ tui_pc # "done"
              /\ tui_last.ran = "None"
        /\ (tui_last.acc = <<>> /\ tui_last.loop = "main") => tui_pc = "done"

\* Esc arrived with 'R' pending: the chord is gone and the loop goes on.
EscClearsOrQuitsWitness ==
    /\ tui_last.result = "Esc"
    /\ tui_last.loop = "main"
    /\ tui_last.acc = <<"R">>
    /\ tui_key_chord = <<>>
    /\ tui_pc = "main"

(***************************************************************************)
(* C9: chords are matched without case folding: an arm of the table runs   *)
(* only on the very shortcut the help lists for it, so 'R' then 'a' does   *)
(* not run what 'R' then 'A' runs.                                         *)
(***************************************************************************)
NoCaseFolding ==
    (tui_last.loop = "main" /\ tui_last.arm \notin {"None", "Unhandled", "NoMatch"}) =>
        tui_last.acc = HelpShortcut(tui_last.arm)

(***************************************************************************)
(* C11 as stated: for a ReadLine holding "hello world", one Ctrl-w leaves  *)
(* "hello " and a second Ctrl-w leaves the empty string.                   *)
(***************************************************************************)
HelloWorldCtrlWTwiceEmpty ==
    (rl_last.key = Ctrl("w") /\ Len(rl_hist) = 2 /\ rl_hist[1] = HelloWorld) =>
        /\ rl_hist[2] = SubSeq(HelloWorld, 1, 6)
        /\ rl = <<>>

(***************************************************************************)
(* C11 amended: for a ReadLine holding "hello world", one Ctrl-w leaves    *)
(* "hello " and a second Ctrl-w leaves "hello".                            *)
(***************************************************************************)
HelloWorldCtrlWTwice ==
    (rl_last.key = Ctrl("w") /\ Len(rl_hist) = 2 /\ rl_hist[1] = HelloWorld) =>
        /\ rl_hist[2] = SubSeq(HelloWorld, 1, 6)
        /\ rl = SubSeq(HelloWorld, 1, 5)

\* Ctrl-w was pressed twice on "hello world".
HelloWorldCtrlWTwiceWitness ==
    /\ rl_last.key = Ctrl("w")
    /\ Len(rl_hist) = 2
    /\ rl_hist[1] = HelloWorld
    /\ rl_hist[2] = <<"h", "e", "l", "l", "o", " ">>
    /\ rl = <<"h", "e", "l", "l", "o">>

(***************************************************************************)
(* C12: Ctrl-w on a non-empty input removes exactly the longest trailing   *)
(* run of characters of the class of the last character (word, blank or    *)
(* other) and leaves the characters before it as they were; on an empty    *)
(* input it changes nothing.                                               *)
(***************************************************************************)
CharClass(c) ==
    IF IsAlphanumeric(c) \/ c = "_" THEN "word"
    ELSE IF IsAsciiWhitespace(c) THEN "blank"
    ELSE "other"

\* The length of the longest trailing run of one class.
TrailingRun(s) ==
    CHOOSE k \in 1..Len(s) :
        /\ \A i \in (Len(s) - k + 1)..Len(s) : CharClass(s[i]) = CharClass(s[Len(s)])
        /\ k < Len(s) => CharClass(s[Len(s) - k]) # CharClass(s[Len(s)])

CtrlWRemovesTrailingRun ==
    (rl_last.key = Ctrl("w") /\ rl_hist # <<>>) =>
        LET before == rl_hist[Len(rl_hist)]
        IN  IF before = <<>> THEN rl = <<>>
            ELSE rl = SubSeq(before, 1, Len(before) - TrailingRun(before))

\* Ctrl-w removed a run of two different punctuation characters that
\* followed a two-byte letter.
CtrlWRemovesTrailingRunWitness ==
    /\ rl_last.key = Ctrl("w")
    /\ rl_hist # <<>>
    /\ rl_hist[Len(rl_hist)] = <<"a", "é", "-", ".">>
    /\ rl = <<"a", "é">>

(***************************************************************************)
(* C13: Output::on_key(height, key) leaves the scroll offset at            *)
(* clamp(f(key, scroll), 0, max(0, line_count - height)), where f is       *)
(* scroll + 1 for Down/Ctrl-n/j, scroll - 1 floored at 0 for Up/Ctrl-p/k,  *)
(* 0 for Home/Ctrl-h, the maximum for End/Ctrl-e, scroll + height/2 for    *)
(* PageDown/Ctrl-d, scroll - height/2 floored at 0 for PageUp/Ctrl-u and   *)
(* scroll for any other key; n PageDown keys from scroll 0 leave it at     *)
(* min(n * (height/2), max(0, line_count - height)).                       *)
(***************************************************************************)
ClaimedTarget(key, scroll, height, maximum) ==
    CASE key \in {KeyDown, Ctrl("n"), Char("j")} -> scroll + 1
      [] key \in {KeyUp, Ctrl("p"), Char("k")} -> Max(0, scroll - 1)
      [] key \in {KeyHome, Ctrl("h")} -> 0
      [] key \in {KeyEnd, Ctrl("e")} -> maximum
      [] key \in {KeyPageDown, Ctrl("d")} -> scroll + (height \div 2)
      [] key \in {KeyPageUp, Ctrl("u")} -> Max(0, scroll - (height \div 2))
      [] OTHER -> scroll

ScrollFollowsKey ==
    out_last.op = "on_key" =>
        LET height == out_last.height
            maximum == Max(0, out.line_count - height)
            target == ClaimedTarget(out_last.key, out_hist.before, height, maximum)
        IN  /\ out.scroll = Max(0, Min(target, maximum))
            /\ out_hist.presses > 0 =>
                  out.scroll = Min(out_hist.presses * (height \div 2), maximum)

\* Three PageDown keys on a hundred lines in a viewport of twenty.
ScrollFollowsKeyWitness ==
    /\ out_last.op = "on_key"
    /\ out_last.height = 20
    /\ out.line_count = 100
    /\ out_hist.presses = 3
    /\ out_hist.before = 20
    /\ out.scroll = 30

(***************************************************************************)
(* C14: after an Info response the displayed entries are the backend's     *)
(* entries in non-decreasing status order, and entries of equal status     *)
(* keep the order in which the backend returned them.                      *)
(***************************************************************************)
\* Where the backend had the entry that is displayed at position i.
AnsweredAt(i) ==
    CHOOSE k \in 1..Len(mode_last.answered) :
        mode_last.answered[k].name = entries[i].name

EntriesStablySorted ==
    mode_last.op = "on_response_info" =>
        /\ Len(entries) = Len(mode_last.answered)
        /\ \A k \in 1..Len(entries) :
              \E i \in 1..Len(entries) :
                  /\ entries[i].name = mode_last.answered[k].name
                  /\ entries[i].status = mode_last.answered[k].status
        /\ \A i, j \in 1..Len(entries) :
              i < j =>
                  /\ StatusRank(entries[i].status) <= StatusRank(entries[j].status)
                  /\ entries[i].status = entries[j].status =>
                        AnsweredAt(i) < AnsweredAt(j)

\* C15: the result cached last for a kind is what reading the cache for that
\* kind returns, whatever the cache held for the kind before.
CacheRoundTrip ==
    GetCachedActionResult(cache, cache_last.kind) = cache_last.result

\* A failure was cached over a success of the same kind and is read back.
CacheRoundTripWitness ==
    /\ cache_last.kind = "Status"
    /\ cache_last.result = ResultErr
    /\ cache_last.before = ResultOk
    /\ GetCachedActionResult(cache, "Status") = ResultErr
    /\ "Status" \notin pending

\* The worker of the kind ends in this step.
Completes(kind) == kind \in pending /\ kind \notin pending'

\* C16: when the worker of a kind ends, whatever other workers are running,
\* the cached result and the running flag of every other kind stay as they
\* were.
CompletionTouchesOwnKindOnly ==
    [][\A kind \in ActionKinds :
          Completes(kind) =>
              \A other \in ActionKinds \ {kind} :
                  /\ GetCachedActionResult(cache', other)
                        = GetCachedActionResult(cache, other)
                  /\ (other \in pending') = (other \in pending)]_vars

\* Status was started, then Log, and the worker of Log ended first, with that
\* of Status still running.
CompletionOutOfOrderWitness ==
    /\ previous_action_kind = "Status"
    /\ current_action_kind = "Log"
    /\ cache_last.kind = "Log"
    /\ cache_last.running = {"Status"}
    /\ pending = {"Status"}

\* C17: once Tui::show has returned, with Ok or with the error of a call of
\* its loop, raw mode is disabled and the alternate screen is left.
TerminalRestoredOnReturn ==
    old_pc \in {"returned", "failed"} => ~raw_mode /\ ~alternate_screen

\* The step is a call of on_enter: the call is recorded and no worker sent
\* a response (a send lengthens the channel and records nothing).
OnEnterStep == mode_last'.op = "on_enter" /\ channel' = channel

\* C18: a call of on_enter made while the mode is Waiting changes neither
\* the state, the output, the entries, the selection cursor nor
\* show_full_message, and spawns no worker.
OnEnterWhileWaitingIsNoOp ==
    [][OnEnterStep /\ state = "Waiting" =>
          /\ UNCHANGED <<state, output, entries, select, show_full_message>>
          /\ UNCHANGED threads
          /\ mode_last'.spawned = NoSpawn]_vars

\* on_enter was called on a Waiting mode whose worker is still running.
OnEnterWhileWaitingWitness ==
    /\ mode_last.op = "on_enter"
    /\ mode_last.spawned = NoSpawn
    /\ state = "Waiting"
    /\ threads = <<"Info">>

\* C19: a call of on_enter made while the mode is Idle or ViewDiff sets the
\* state to Waiting, empties the output with scroll 0, resets the selection
\* cursor to 0 and spawns exactly one worker, which fetches the details of
\* the revision.
OnEnterStartsFetch ==
    [][OnEnterStep /\ state \in {"Idle", "ViewDiff"} =>
          /\ state' = "Waiting"
          /\ output'.text = <<>> /\ output'.scroll = 0
          /\ select'.cursor = 0
          /\ threads' = Append(threads, "Info")
          /\ \E rev \in Revisions : mode_last'.spawned = InfoThread(rev)]_vars

\* on_enter was called while the worker of a diff was still running, with
\* entries to select from, and started the worker that fetches the details.
OnEnterStartsFetchWitness ==
    /\ mode_last.op = "on_enter"
    /\ mode_last.spawned.kind = "Info"
    /\ state = "Waiting"
    /\ threads = <<"Diff", "Info">>
    /\ Len(entries) > 1
    /\ output.text = <<>> /\ output.scroll = 0
    /\ select.cursor = 0

\* The step is a call of on_response with a response of the kind: the
\* response at the head of the channel is taken.
OnResponseStep(kind) ==
    /\ channel # <<>>
    /\ Head(channel) = kind
    /\ channel' = Tail(channel)

WaitingResponseByState ==
    /\ state = "Idle" => ~IsWaitingResponse
    /\ state = "Waiting" => IsWaitingResponse
    /\ state = "ViewDiff" => (IsWaitingResponse <=> Len(output.text) = 0)
    /\ /\ mode_last.op = "on_response_diff"
       /\ mode_last.answered = <<>>
       /\ state = "ViewDiff"
       => IsWaitingResponse

\* A Diff response carrying the empty string was applied in ViewDiff and the
\* mode still counts as waiting.
WaitingAfterEmptyDiffWitness ==
    /\ mode_last.op = "on_response_diff"
    /\ mode_last.answered = <<>>
    /\ state = "ViewDiff"
    /\ channel = <<>> /\ threads = <<>>
    /\ IsWaitingResponse

OldKeyStep == pending \subseteq pending'

\* The callback's prompt was cancelled: read_line failed or answered an
\* empty line, or the selection was cancelled.
Cancelled(trace) ==
    \/ trace.prompted /\ (~trace.line.ok \/ trace.line.line = <<>>)
    \/ trace.selection = "cancelled"

\* C23: when the prompt of an operation is cancelled, no worker is started,
\* the current action kind is again the one that was current before the
\* chord, and the cached result of that kind is what is displayed.
CancelRestoresPrevious ==
    [][OldKeyStep /\ Cancelled(old_last'.trace) =>
          /\ old_last'.spawned = "None"
          /\ pending' = pending /\ spawns' = spawns
          /\ current_action_kind' = current_action_kind
          /\ old_last'.shown = current_action_kind]_vars

\* 'c' 's' was typed over the result of Status, the selection was confirmed
\* and the commit message left empty: Status is current again.
CancelRestoresPreviousWitness ==
    /\ old_last.acc = <<"c", "s">>
    /\ old_last.trace.selection = "confirmed"
    /\ old_last.trace.prompted
    /\ old_last.trace.line = [ok |-> TRUE, line |-> <<>>]
    /\ old_last.spawned = "None"
    /\ current_action_kind = "Status"
    /\ old_last.shown = "Status"
    /\ cache["Status"] = ResultOk

\* The lines of the model that are entered (not empty) and are no number once
\* the blanks around them are gone: nothing is left, or a character that is
\* no digit.
LinesNoNumber ==
    { l \in PromptLines :
        /\ l # <<>>
        /\ \/ \A i \in 1..Len(l) : l[i] = " "
           \/ \E i \in 1..Len(l) : l[i] \notin Digits \cup {" "} }

\* C24: when the text entered for 'L' 'C' does not parse as a number, no
\* worker is started, no cached result changes, and the failure is printed
\* under an Error header.
LogCountParseFailure ==
    [][/\ OldKeyStep
       /\ old_last'.acc = <<"L", "C">>
       /\ old_last'.trace.line.ok
       /\ old_last'.trace.line.line \in LinesNoNumber
       => /\ old_last'.spawned = "None"
          /\ pending' = pending /\ spawns' = spawns
          /\ cache' = cache
          /\ old_last'.trace.header = "Error"
          /\ old_last'.trace.message = "could not parse a number from "]_vars

\* A word was entered for the count while the result of Status was cached.
LogCountParseFailureWitness ==
    /\ old_last.acc = <<"L", "C">>
    /\ old_last.trace.line = [ok |-> TRUE, line |-> <<"x">>]
    /\ old_last.trace.header = "Error"
    /\ old_last.spawned = "None"
    /\ current_action_kind = "LogCount"
    /\ cache["Status"] = ResultOk
    /\ cache["LogCount"] = ResultDefault

\* C25: the front end runs no call of the version control and no custom
\* action itself while it handles a key: neither the chord-driven front end
\* (the fetch of the changed files, the execution of a custom action) nor
\* the synchronous one.
FrontEndNeverBlocks ==
    /\ old_last.trace.ran = "None"
    /\ tui_last.ran = "None"

\* C26: a worker of RevisionDetails, Info or Diff, that has run called the
\* backend once and sent exactly one response of its own kind, whether the
\* call succeeded or failed; after a failure the response carries the error
\* text as its data.
WorkerSendsExactlyOnce ==
    worker_last.kind # "None" =>
        /\ worker_last.calls = 1
        /\ Len(worker_last.sent) = 1
        /\ worker_last.sent[1].kind = worker_last.kind
        /\ worker_last.ok => worker_last.sent[1].carries = "value"
        /\ ~worker_last.ok => worker_last.sent[1].carries = "error"
        /\ channel # <<>>
        /\ channel[Len(channel)] = worker_last.kind

\* A diff worker whose backend call failed has run.
FailedDiffWorkerWitness ==
    /\ worker_last.kind = "Diff"
    /\ ~worker_last.ok
    /\ state = "ViewDiff"

\* The header agrees with the running workers and the result: Waiting
\* exactly when the kind has a worker running, and otherwise Error exactly
\* on a failed result and Ok exactly on a successful one.
HeaderAgrees(header, kind, pend, result) ==
    /\ header = "Waiting" <=> kind \in pend
    /\ kind \notin pend =>
          /\ header = "Error" <=> ~result.success
          /\ header = "Ok" <=> result.success

\* A step of a loop that handles a key event, and a step in which a worker
\* ends.
KeyHandledStep ==
    /\ OldKeyStep
    /\ old_pc \in {"main", "custom"}
    /\ old_pc' # "failed"
WorkerEndedStep == pending' # pending /\ pending' \subseteq pending

\* C27: whenever show_result shows a result for the current action kind,
\* while a key is handled or when the worker of the current kind has ended,
\* the header is Waiting if and only if that kind has a worker running, and
\* otherwise Error if and only if the result failed and Ok if and only if it
\* succeeded; a failed result whose worker has ended is under Error.
ShowResultHeaderByPendingAndSuccess ==
    [][ /\ (KeyHandledStep /\ old_last'.result_header # "None") =>
              HeaderAgrees(old_last'.result_header, current_action_kind',
                           pending', old_last'.displayed)
        /\ (WorkerEndedStep /\ cache_last'.result_header # "None") =>
              /\ HeaderAgrees(cache_last'.result_header, current_action_kind',
                              pending', cache_last'.result)
              /\ ~cache_last'.result.success =>
                    cache_last'.result_header = "Error" ]_vars

\* The result of the kind just started was shown under the Waiting header,
\* then its worker ended in failure and the result is under the Error header.
WaitingThenErrorHeaderWitness ==
    /\ old_last.spawned = current_action_kind
    /\ old_last.result_header = "Waiting"
    /\ cache_last.kind = current_action_kind
    /\ cache_last.result = ResultErr
    /\ cache_last.result_header = "Error"

\* C28: for a menu over N >= 1 entries with its cursor on one of them,
\* on_remove_entry(i) with i < N takes one from the cursor, not below 0,
\* exactly when i <= cursor and leaves it alone otherwise, and the cursor is
\* then an index of the shortened list: cursor <= max(0, N - 2).
RemoveEntryKeepsCursorValid ==
    [][ menu_last'.op = "on_remove_entry" =>
          \A N \in 1..(MaxLen + 1) :
              (menu.cursor <= N - 1 /\ menu_last'.n < N) =>
                  /\ menu'.cursor = IF menu_last'.n <= menu.cursor
                                    THEN Max(0, menu.cursor - 1)
                                    ELSE menu.cursor
                  /\ menu'.cursor <= Max(0, N - 2) ]_vars

\* The entry under a cursor on the last of three entries was removed.
RemoveEntryAtCursorWitness ==
    /\ menu_last.op = "on_remove_entry"
    /\ menu_last.n = 2
    /\ menu.cursor = 1

\* A step in which on_key handles the Space key in the Idle state.
SpaceInIdleStep ==
    /\ state = "Idle"
    /\ mode_last'.op = "on_key"
    /\ mode_last'.key = Char(" ")
    /\ threads' = threads
    /\ channel' = channel

\* C29: in the Idle state of RevisionDetails the Space key flips the
\* selected flag of the entry at the cursor as clamped by the key handling
\* and of no other entry; the index it toggles is always an index of the
\* list, and on an empty list it toggles nothing and the list stays empty.
SpaceTogglesEntryAtCursor ==
    [][ SpaceInIdleStep =>
          /\ Len(entries') = Len(entries)
          /\ \A h \in 0..MaxViewHeight :
                LET act == SelectMenuOnKeyAction(select, Len(entries), h, Char(" "))
                IN  /\ act.a = "Toggle" => act.i < Len(entries)
                    /\ entries = <<>> => act = ActNone
          /\ entries # <<>> => select'.cursor < Len(entries)
          /\ \A i \in 1..Len(entries) :
                /\ entries'[i].name = entries[i].name
                /\ entries'[i].status = entries[i].status
                /\ entries'[i].selected =
                      IF i - 1 = select'.cursor
                      THEN ~entries[i].selected
                      ELSE entries[i].selected ]_vars

\* Space was pressed on the second of two entries, which it selected while
\* the first stayed unselected.
SpaceOnSecondEntryWitness ==
    /\ state = "Idle"
    /\ mode_last.op = "on_key"
    /\ mode_last.key = Char(" ")
    /\ Len(entries) = 2
    /\ select.cursor = 1
    /\ entries[2].selected
    /\ ~entries[1].selected

\* The width of a line with its tabs expanded.
RECURSIVE ExpandedWidth(_)
ExpandedWidth(line) ==
    IF line = <<>> THEN 0
    ELSE (IF Head(line) = "\t" THEN TabWidth ELSE 1) + ExpandedWidth(Tail(line))

\* C30: Drawer::output draws the lines from the scroll offset on, counts a
\* line wider than the viewport as several visual lines and any other line
\* as one, returns the sum, and the count it returns never exceeds the
\* viewport height.
DrawnLinesFitViewport ==
    draw_last.called =>
        /\ Len(draw_last.counts) <= Len(draw_last.lines)
        /\ draw_last.line_count = SumSeq(draw_last.counts)
        /\ \A k \in 1..Len(draw_last.counts) :
              IF ExpandedWidth(draw_last.lines[k]) > draw_last.width
              THEN draw_last.counts[k] > 1
              ELSE draw_last.counts[k] = 1
        /\ draw_last.line_count <= draw_last.height

\* The chord is a strict prefix of the shortcut.
StrictPrefix(chord, shortcut) ==
    /\ Len(chord) < Len(shortcut)
    /\ \A k \in 1..Len(chord) : chord[k] = shortcut[k]

\* What the loop did with the last key agrees with a chord-resolution
\* table: an action is executed exactly when the characters typed equal its
\* shortcut, the loop goes on exactly while they are a strict prefix of a
\* shortcut, and no match is reported, and nothing executed, otherwise.
CustomLoopResolves ==
    old_last.loop = "custom" /\ old_last.kind # "CustomCancelled" =>
        LET acc == old_last.acc
            equal == \E i \in 1..Len(custom_actions) : custom_actions[i] = acc
            prefix == \E i \in 1..Len(custom_actions) :
                          StrictPrefix(acc, custom_actions[i])
        IN  /\ old_last.kind = "CustomExecuted" <=> equal
            /\ old_last.kind = "CustomExecuted" =>
                  /\ old_last.action \in 1..Len(custom_actions)
                  /\ custom_actions[old_last.action] = acc
                  /\ old_last.trace.ran = "execute"
            /\ old_last.result = "InCustom" <=> (~equal /\ prefix)
            /\ old_last.kind = "CustomNoMatch" <=> (~equal /\ ~prefix)
            /\ old_last.kind # "CustomExecuted" => old_last.trace.ran = "None"

\* Typing the shortcut of action i into the loop, character by character,
\* keeps the loop going up to the last character, which executes action i.
TypingExecutes(registry, i) ==
    LET shortcut == registry[i]
    IN  /\ \A k \in 1..(Len(shortcut) - 1) :
              CustomResolve(registry, SubSeq(shortcut, 1, k)).kind = "continue"
        /\ CustomResolve(registry, shortcut) = [kind |-> "execute", action |-> i]

\* The shortcut of action i is not empty and no other action has it.
DistinctShortcut(registry, i) ==
    /\ registry[i] # <<>>
    /\ \A j \in 1..Len(registry) : j # i => registry[j] # registry[i]

\* No action has a shortcut that the shortcut of action i starts with.
NoShorterShortcut(registry, i) ==
    \A j \in 1..Len(registry) : ~StrictPrefix(registry[j], registry[i])

OnKeyStep == mode_last'.op = "on_key" /\ channel' = channel

\* C33: on_key in the ViewDiff state changes nothing but the scroll offset
\* of the output and spawns no worker, and on_key in the Waiting state
\* changes nothing.
OnKeyOutsideIdleOnlyScrolls ==
    [][ OnKeyStep =>
          /\ state \in {"ViewDiff", "Waiting"} =>
                /\ state' = state
                /\ entries' = entries
                /\ select' = select
                /\ show_full_message' = show_full_message
                /\ threads' = threads
                /\ mode_last'.spawned = NoSpawn
                /\ output'.text = output.text
                /\ output'.line_count = output.line_count
          /\ state = "Waiting" => output' = output ]_vars

\* A key has scrolled the diff shown in ViewDiff.
ScrolledInViewDiffWitness ==
    /\ state = "ViewDiff"
    /\ mode_last.op = "on_key"
    /\ mode_last.key = KeyDown
    /\ output.scroll = 1

\* The index of the k-th selected entry of the list.
KthSelected(es, k) ==
    CHOOSE i \in 1..Len(es) :
        /\ es[i].selected
        /\ Cardinality({ j \in 1..(i - 1) : es[j].selected }) = k - 1

\* The sequence is the selected entries of the list, in the order of the
\* list, each with its name and status.
IsSelectionOf(q, es) ==
    /\ Len(q) = Cardinality({ i \in 1..Len(es) : es[i].selected })
    /\ \A k \in 1..Len(q) :
          /\ q[k].name = es[KthSelected(es, k)].name
          /\ q[k].status = es[KthSelected(es, k)].status

\* C34: in the Idle state with at least one entry the 'd' key moves the mode
\* to ViewDiff, empties the output and spawns exactly one diff worker, for
\* the revision of the call, whose entries are exactly the selected entries
\* in the order of the list.
DiffKeySpawnsWorkerOnSelection ==
    [][ (/\ OnKeyStep
         /\ state = "Idle"
         /\ mode_last'.key = Char("d")
         /\ entries # <<>>) =>
          /\ state' = "ViewDiff"
          /\ output' = OutputSet(output, <<>>)
          /\ threads' = Append(threads, "Diff")
          /\ mode_last'.spawned.kind = "Diff"
          /\ mode_last'.spawned.revision \in Revisions
          /\ IsSelectionOf(mode_last'.spawned.entries, entries)
          /\ entries' = entries ]_vars

\* The 'd' key spawned a diff worker on the second of two entries, the only
\* one selected.
DiffOnSecondEntryWitness ==
    /\ state = "ViewDiff"
    /\ mode_last.op = "on_key"
    /\ mode_last.key = Char("d")
    /\ Len(entries) = 2
    /\ ~entries[1].selected
    /\ entries[2].selected
    /\ Len(mode_last.spawned.entries) = 1
    /\ mode_last.spawned.entries[1].name = entries[2].name

\* C35: selections never carry over into a new visit: the mode leaves
\* Waiting for Idle only on an Info response, and the entries it then holds
\* are the entries of that response, as many and with the same names and
\* statuses, every one unselected, whatever was selected before.
SelectionsNeverCarryOver ==
    [][ (state = "Waiting" /\ state' = "Idle") =>
          /\ OnResponseStep("Info")
          /\ mode_last'.op = "on_response_info"
          /\ Len(entries') = Len(mode_last'.answered)
          /\ \A i \in 1..Len(entries') : ~entries'[i].selected
          /\ \A i \in 1..Len(entries') :
                \E k \in 1..Len(mode_last'.answered) :
                    /\ entries'[i].name = mode_last'.answered[k].name
                    /\ entries'[i].status = mode_last'.answered[k].status ]_vars

\* The Info response of a visit has brought the mode to Idle with two
\* entries, none selected.
FreshEntriesAfterInfoWitness ==
    /\ state = "Idle"
    /\ mode_last.op = "on_response_info"
    /\ Len(entries) = 2
    /\ \A i \in 1..Len(entries) : ~entries[i].selected

\* C36: whenever the mode is Idle, the state in which the select menu is
\* drawn, the cursor is an index of the entry list, cursor <= max(0, N - 1),
\* and lies inside the visible window: scroll <= cursor.
CursorValidAndVisibleInIdle ==
    state = "Idle" =>
        /\ select.cursor <= Max(0, Len(entries) - 1)
        /\ select.scroll <= select.cursor

\* The dispatch tables: the chords that select an operation in
\* handle_key_chord and in handle_command.
OldDispatchTable ==
    { c \in SeqsUpTo(TypedChars, 2) :
        HandleKeyChordArm(c) \notin {"Unhandled", "NoMatch"} }
TuiDispatchTable ==
    { c \in SeqsUpTo(TuiChars, 2) :
        HandleCommandArm(c) \notin {"Unhandled", "NoMatch"} }

\* The chord is empty or a strict prefix of an entry of the table, and holds
\* one character at most.
PendingChordOk(chord, table) ==
    /\ chord = <<>> \/ \E entry \in table : StrictPrefix(chord, entry)
    /\ Len(chord) <= 1

\* C37: whenever a main loop waits for the next key, the pending chord is
\* empty or a strict prefix of an entry of the dispatch table, and so never
\* holds more than one character.
PendingChordIsPrefix ==
    /\ typed_last.result # "Quit" => PendingChordOk(typed_chord, OldDispatchTable)
    /\ old_pc = "main" => PendingChordOk(current_key_chord, OldDispatchTable)
    /\ tui_pc = "main" => PendingChordOk(tui_key_chord, TuiDispatchTable)

\* The main loop waits for the next key with the prefix 'D' pending.
PrefixPendingWitness ==
    /\ typed_chord = <<"D">>
    /\ typed_last.result = "Unhandled"
    /\ typed # <<>>

\* C38: a Diff response whose worker was started before the latest on_enter
\* or before the latest 'd' request is never written into the output buffer.
StaleDiffNeverWritten ==
    [][ (OnResponseStep("Diff") /\ ~Head(latest.channel)) => output' = output ]_vars

\* C39: with workers that finish and responses that are delivered, a mode
\* that is Waiting eventually becomes Idle, whether the backend call of its
\* worker succeeds or fails.
WaitingLeadsToIdle == (state = "Waiting") ~> (state = "Idle")

\* The mode is Waiting and the response of its worker, whose backend call
\* failed, is in the channel.
WaitingOnFailedInfoWitness ==
    /\ state = "Waiting"
    /\ worker_last.kind = "Info"
    /\ ~worker_last.ok
    /\ channel = <<"Info">>

\* The length of the longest shortcut of a registry, 0 for the empty one.
LongestShortcut(registry) ==
    IF registry = <<>> THEN 0
    ELSE CHOOSE n \in { Len(registry[i]) : i \in 1..Len(registry) } :
            \A i \in 1..Len(registry) : Len(registry[i]) <= n

\* The loop of handle_custom_action has taken at most `limit` character
\* keys when it returns, fewer when it goes on, and the chord is empty once
\* control is back in the main loop.
CustomLoopReturnsWithin(limit) ==
    old_last.loop = "custom" =>
        /\ Len(old_last.acc) <= limit
        /\ old_pc = "custom" => Len(old_last.acc) < limit
        /\ old_pc = "main" => current_key_chord = <<>>

============================================================================
